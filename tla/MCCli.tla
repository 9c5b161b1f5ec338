------------------------------- MODULE MCCli -------------------------------
(* Small instances of the clients for TLC.                                 *)
EXTENDS Cli

Builds(numbers) == {[scope |-> "build_log", number |-> n] : n \in numbers}
Other(scopes) == {[scope |-> s, number |-> 0] : s \in scopes}

\* Two builds: one stays below the cap and ends within a line, one passes it.
MCOutputs == {[warnings |-> <<>>, writes |-> <<<<"a", "nl", "b">>, <<"cr">>>>],
              [warnings |-> <<"w", "nl">>, writes |-> <<<<"a", "cr", "b">>, <<"nl", "c", "nl">>>>]}

\* A line in two frames of its stream, with another stream's frame, one that
\* nobody knows and an empty line between them.
MCFrames == <<[stream |-> "stdout", text |-> <<"a", "nl", "nl", "b">>], [stream |-> "stderr", text |-> <<"e">>],
              [stream |-> "stdin", text |-> <<"x", "nl">>], [stream |-> "stdout", text |-> <<"c", "nl">>]>>

\* A plain key, a secret, and one that need not be there.
Stored(e) == [k \in Keys |-> CASE k = "k1" -> Entry("old", FALSE) [] k = "k2" -> Entry("old", TRUE) [] OTHER -> e]

\* The commands of the two clients, the caps, and what can happen meanwhile.
Setting(first, second, other, targets, earlier, user, total, faults) ==
    [role |-> [c \in Clients |-> IF c = "c1" THEN first ELSE second],
     owner |-> [c \in Clients |-> IF c = "c1" THEN "u1" ELSE other],
     targets |-> targets, earlier |-> earlier, limit |-> [user |-> user, total |-> total], faults |-> faults,
     initial |-> Stored(Absent), from |-> [c \in Clients |-> "ip"], overlap |-> FALSE, leftover |-> {}]

Edit == Setting("edit", "edit", "u2", {}, 0, 1, 1, {})
Releases == Setting("release", "none", "u2", {}, 0, 1, 1, {})
Logins == Setting("login", "login", "u2", {}, 0, 1, 1, {})

MCSettings ==
    {Setting("deploy", "none", "u2", {}, 1, 1, 1, {"delete", "finish"}),
     Setting("deploy", "none", "u2", {}, 0, 1, 1, {"die", "delete"}),
     Setting("deploy", "none", "u2", {}, 1, 1, 1, {"die", "finish"}),
     Setting("deploy", "none", "u2", {}, 0, 1, 1, {"die", "disable"}),
     Setting("deploy", "web", "u2", Builds({1}), 0, 2, 1, {}),
     Setting("deploy", "web", "u1", Builds({1}), 0, 1, 2, {"leave"}),
     Setting("web", "none", "u2", Builds({1, 2}) \cup Other({"app_logs", "stats", "all_stats"}), 2, 1, 1, {"expire", "disable", "delete"}),
     Setting("web", "web", "u1", Other({"app_logs", "all_stats"}), 0, 1, 2, {"die"}),
     Setting("logs", "web", "u1", Other({"app_logs"}), 0, 2, 1, {"leave", "delete"}),
     Edit, [Edit EXCEPT !.initial = Stored(Entry("old", TRUE))],
     Logins, [Logins EXCEPT !.from = [c \in Clients |-> c]], [Logins EXCEPT !.overlap = TRUE],
     Releases, [Releases EXCEPT !.leftover = {3, 4}]}

MCEdits == {[sets |-> TRUE, keys |-> ks, value |-> v, secret |-> s] :
              ks \in {{"k1"}, {"k2"}, {"k2", "k3"}}, v \in {"new", Empty}, s \in BOOLEAN}
           \cup {[sets |-> FALSE, keys |-> ks] : ks \in {{"k1"}, {"k2"}, {"k3"}}}
=============================================================================
