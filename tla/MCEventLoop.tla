--------------------------- MODULE MCEventLoop ---------------------------
(* Instances of EventLoop for TLC, and the operators it rests on against   *)
(* their definitions elsewhere.                                            *)
EXTENDS EventLoop, Tokens

\* Retain's definition by positions is the library's recursive SelectSeq.
ASSUME RetainIsSelectSeq ==
    \A n \in 0 .. 4 : \A list \in [1 .. n -> {"x", "y", "z"}] :
        Without(list, "x") = SelectSeq(list, LAMBDA e : e # "x")

\* Small targets, with the proportions of the real ones: on the first there is
\* room for every id that is tried, on the second for half of them.
Layouts == {[versions |-> 4, subs |-> 4, words |-> 256], [versions |-> 2, subs |-> 4, words |-> 32]}

SomeTokens(l) == [id : 0 .. 7, version : 0 .. l.versions - 1, sub_id : 0 .. l.subs - 1]

\* A token survives the poller if its id fits beside version and sub-id, and
\* comes back as one of another source if it does not.
ASSUME KeysAreTokens ==
    \A l \in Layouts : \A t \in SomeTokens(l) :
        /\ Pack(l, t) < l.words
        /\ (Unpack(l, Pack(l, t)) = t) <=> (t.id \in Ids(l))
        /\ SameSource(Unpack(l, Pack(l, t)), t) <=> (t.id \in Ids(l))

\* Every usize is the key of one token.
ASSUME TokensAreKeys ==
    \A l \in Layouts : \A n \in 0 .. l.words - 1 : Pack(l, Unpack(l, n)) = n

\* A reused slot's token is another one, until all versions were used.
ASSUME VersionsDiffer ==
    \A l \in Layouts : \A t \in SomeTokens(l) :
        LET later[k \in 0 .. l.versions] ==
                IF k = 0 THEN ForgetSubId(t) ELSE IncrementVersion(l, later[k - 1])
        IN  \A k \in 1 .. l.versions : SameSource(later[k], t) <=> (k = l.versions)

\* The factory's tokens are those of the source, in order; it stops one short
\* of the number of sub-ids.
ASSUME FactoryNumbersRegistrations ==
    \A l \in Layouts : \A t \in SomeTokens(l) : \A n \in 0 .. l.subs :
        /\ FactoryToken(t)[n].sub_id = n /\ SameSource(FactoryToken(t)[n], t)
        /\ FactoryGives(l, t, n) <=> (n < l.subs - 1)
=============================================================================
