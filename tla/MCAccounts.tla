----------------------------- MODULE MCAccounts -----------------------------
(* Small instances of the accounts for TLC. *)
EXTENDS Accounts, TLC

CONSTANT o1

\* One request of any kind at a time; or one goroutine that changes and
\* removes users, and stops anywhere, beside one that does all the rest.
SerialDuty == [o \in Ops |-> IF o = o1 THEN Kinds ELSE {}]
RemoverDuty == [o \in Ops |-> IF o = o1 THEN Removals \cup {"interrupted"}
                              ELSE Kinds \ (Removals \cup {"password"})]
\* Or two delete users, a request of each after the other has looked it up.
DeletersDuty == [o \in Ops |-> IF o = o1 THEN {"login", "invite", "accept", "delete"}
                               ELSE {"delete"}]
MCDuties == {SerialDuty, RemoverDuty, DeletersDuty}

\* Two goroutines that disable users.
RaceDuties == {[o \in Ops |-> {"login", "invite", "accept", "disable"}]}

AccountSymmetry == Permutations(Tokens) \cup Permutations(Invites)
=============================================================================
