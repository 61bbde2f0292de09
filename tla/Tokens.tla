----------------------------- MODULE Tokens -----------------------------
(***************************************************************************)
(* Tokens (token.rs) and the factory that numbers the registrations of one *)
(* source (sys.rs, TokenFactory): the parts of a token, and how they share *)
(* a usize, which is the poller's key.                                     *)
(*                                                                         *)
(* A layout says how many versions, sub-ids and usize values the target    *)
(* has: on 64 bits 2^16, 2^16 and 2^64, on 32 bits 2^8, 2^8 and 2^32, on   *)
(* 16 bits 2^4, 2^4 and 2^16.  An id is a u32 on every target.             *)
(***************************************************************************)
EXTENDS Naturals, Sequences, Functions

IsLayout(l) == l.versions \in Nat \ {0} /\ l.subs \in Nat \ {0} /\ l.words \in Nat \ {0}

TokenInner(l) == [id : Nat, version : 0 .. l.versions - 1, sub_id : 0 .. l.subs - 1]

NewToken(id) == [id |-> id, version |-> 0, sub_id |-> 0]

SameSource(t, u) == t.id = u.id /\ t.version = u.version

IncrementVersion(l, t) == [t EXCEPT !.version = (@ + 1) % l.versions, !.sub_id = 0]

ForgetSubId(t) == [t EXCEPT !.sub_id = 0]

\* It panics where there is no next one.
HasNextSubId(l, t) == t.sub_id + 1 < l.subs
IncrementSubId(t)  == [t EXCEPT !.sub_id = @ + 1]

----------------------------------------------------------------------------
(* Conversion to and from usize.                                           *)

\* The shift of the id drops what does not fit.
Pack(l, t) == ((t.id * l.versions * l.subs) % l.words) + t.version * l.subs + t.sub_id

Unpack(l, n) ==
    [id      |-> n \div (l.versions * l.subs),
     version |-> (n \div l.subs) % l.versions,
     sub_id  |-> n % l.subs]

\* The ids a usize has room for
Ids(l) == 0 .. (l.words \div (l.versions * l.subs)) - 1

----------------------------------------------------------------------------
(* TokenFactory.                                                           *)

\* The tokens a source gets if it asks n times, in every call of register or
\* reregister anew.  Each increments the sub-id of the next in advance.
FactoryToken(t) ==
    LET token[n \in Nat] == IF n = 0 THEN ForgetSubId(t) ELSE IncrementSubId(token[n - 1])
    IN  token

\* The nth request, from 0, does not panic.
FactoryGives(l, t, n) == HasNextSubId(l, FactoryToken(t)[n])
=============================================================================
