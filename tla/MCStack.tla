------------------------------ MODULE MCStack ------------------------------
(* Small instances of compose applies for TLC. *)
EXTENDS Stack

CONSTANTS a1, a2, a3

MCAlphabet == <<"app-x", "db", "job", "web">>
MCNormal == [p \in {"shop", "Shop", "blog", "9"} |->
               CASE p \in {"shop", "Shop"} -> "shop" [] p = "blog" -> "blog" [] OTHER -> ""]
MCSlugs == {"shop", "blog"} \X {"db", "web"}
MCHandMade == {<<"shop", "web">>}

----------------------------------------------------------------------------
(* Documents *)

Raw(name, deps) ==
    [name |-> name, image |-> "given", build |-> "none", environment |-> {}, volumes |-> <<>>,
     depends |-> [form |-> "list", names |-> deps], expose |-> <<>>, others |-> {}]
Doc(services) == [root |-> "mapping", name |-> "", services |-> services, others |-> {},
                  volumes |-> [form |-> "none", names |-> {}]]

\* An internal database with a volume and a variable, before or behind the
\* built service that depends on it; and the same without the volume.
Db == [Raw("db", <<>>) EXCEPT !.volumes = <<[form |-> "short", parts |-> <<"data", "/path">>]>>,
                              !.environment = {[key |-> "K", value |-> "given"]}]
Web == [Raw("web", <<"db">>) EXCEPT !.build = "given", !.image = "none", !.expose = <<80>>]
Whole == {Doc(<<Web, Db>>), Doc(<<Db>>), Doc(<<Raw("db", <<>>)>>), Doc(<<Raw("web", <<>>)>>)}

\* Every graph of three services with at most two entries for each.
Lists == {<<>>} \cup {<<n>> : n \in {"db", "job", "web"}}
         \cup {<<m, n>> : m \in {"db", "job", "web"}, n \in {"db", "job", "web"}}
Graphs3 == {Doc(<<Raw("web", d), Raw("db", e), Raw("job", f)>>) : d \in Lists, e \in Lists, f \in Lists}

\* One service, with each kind of value at each of its keys.
Parts == UNION {[1..n -> {"", "host", "data", "ro"}] : n \in 1..4}
One == Raw("db", <<>>)
Odd == {[One EXCEPT !.volumes = <<[form |-> "short", parts |-> p]>>] : p \in Parts}
       \cup {[One EXCEPT !.volumes = <<[form |-> "long", type |-> t, source |-> s, target |-> d]>>] :
               t \in {"", "volume", "bind", "tmpfs"}, s \in {"", "host", "data"}, d \in {"", "/path"}}
       \cup {[One EXCEPT !.expose = e] : e \in UNION {[1..n -> {0, 1, 80, 65535, 65536}] : n \in 0..2}}
       \cup {[One EXCEPT !.environment = {[key |-> "K", value |-> v]}] : v \in {"given", "none", "bad"}}
       \cup {[One EXCEPT !.image = i, !.build = b] :
               i \in {"none", "given", "bad"}, b \in {"none", "given", "listed args", "bad"}}
       \cup {[One EXCEPT !.depends = [form |-> f, names |-> <<>>], !.others = o] :
               f \in {"list", "map", "bad"}, o \in SUBSET {"ports", "restart"}}

\* Dependencies in the form of a mapping, among three services.
Mapped(name, deps) == [Raw(name, deps) EXCEPT !.depends.form = "map"]
Maps == {<<>>, <<"job">>, <<"job", "db">>, <<"web", "job">>}
MapDocs == {Doc(<<Mapped("web", d), Mapped("db", e), Raw("job", <<>>)>>) : d \in Maps, e \in Maps}
Vols == {[form |-> "none", names |-> {}], [form |-> "map", names |-> {}],
         [form |-> "map", names |-> {"data"}], [form |-> "bad", names |-> {}]}
OddDocs == {[Doc(<<r>>) EXCEPT !.volumes = v, !.others = o] : r \in Odd, v \in Vols, o \in {{}, {"x"}}}
           \cup {[Doc(<<One>>) EXCEPT !.root = "bad"], Doc(<<One, One>>), Doc(<<>>),
                 Doc(<<Raw("app-x", <<>>)>>), Doc(<<Raw("db", <<"nobody">>)>>),
                 [Doc(<<One>>) EXCEPT !.name = "bad"]}

\* All of those are only planned. Some applies have no project, or a bad one.
Planned == {[tar |-> "ok", doc |-> d, query |-> "shop", dry |-> TRUE] : d \in Graphs3 \cup OddDocs \cup MapDocs}
Real(project) == {[tar |-> "ok", doc |-> d, query |-> project, dry |-> FALSE] : d \in Whole}
Other == {[tar |-> t, doc |-> d, query |-> q, dry |-> FALSE] :
            t \in {"ok", "bad"}, d \in {Doc(<<>>), [Doc(<<>>) EXCEPT !.name = "9"]}, q \in {"", "Shop"}}
\* A database that loses its volume from the document after its first apply.
Losing == [tar |-> "ok", doc |-> Doc(<<[Db EXCEPT !.environment = {}]>>), query |-> "shop", dry |-> FALSE]
Lost == [Losing EXCEPT !.doc = Doc(<<Raw("db", <<>>)>>)]
MCUploads == [plan |-> [a \in Applies |-> IF a = a1 THEN Planned \cup Other ELSE {}],
              deploy |-> [a \in Applies |-> CASE a = a1 -> Real("shop")
                                              [] a = a2 -> Real("shop") \cup Real("blog")
                                              [] OTHER -> {}],
              lose |-> [a \in Applies |-> IF a = a1 THEN {Losing} ELSE {Lost}],
              again |-> [a \in Applies |-> IF a = a3 THEN {} ELSE {[Losing EXCEPT !.doc = Doc(<<Web, Db>>)]}]]

\* What goes wrong in a behaviour, most of it one at a time.
Calm == [uploads |-> "deploy", overlap |-> FALSE, careless |-> FALSE, meddle |-> FALSE,
         faults |-> FALSE, crash |-> FALSE]
MCConducts == {Calm, [Calm EXCEPT !.uploads = "plan"], [Calm EXCEPT !.overlap = TRUE],
               [Calm EXCEPT !.careless = TRUE], [Calm EXCEPT !.meddle = TRUE],
               [Calm EXCEPT !.faults = TRUE], [Calm EXCEPT !.crash = TRUE],
               [Calm EXCEPT !.uploads = "lose", !.faults = TRUE],
               [Calm EXCEPT !.uploads = "lose", !.crash = TRUE],
               [Calm EXCEPT !.uploads = "again", !.faults = TRUE, !.crash = TRUE]}
=============================================================================
