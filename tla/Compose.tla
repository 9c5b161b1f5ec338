------------------------------ MODULE Compose ------------------------------
(***************************************************************************)
(* What internal/compose computes: Parse turns a compose document into a   *)
(* file of services, BuildPlan turns a file into the apps of a project, in *)
(* the order they are to be deployed. Pure functions of their arguments.   *)
(*                                                                         *)
(* A document is a record. Names are strings and the constants say which   *)
(* of them a pattern refuses. A value is what Parse tells apart of it: the *)
(* source of a mount is "" (empty), "host" (a path) or a volume's name, a  *)
(* port is a number, "bad" is a value of a type that is not accepted. Go   *)
(* ranges over the keys of a service in any order, so of several errors    *)
(* any may be returned: here there is one, or none. A warning is what it   *)
(* names.                                                                  *)
(***************************************************************************)
EXTENDS Integers, Sequences, SequencesExt, FiniteSets

CONSTANTS Alphabet,       \* the names of services, sorted
          Normal,         \* project name -> its slug component, "" if it has none
          BadNames,       \* names that are no DNS label
          ReservedNames,  \* "caddy", "basepod", "bp-..." and "app-..."
          BadSlugs        \* pairs <<project, service>> whose slug is too long or reserved

Refused == [ok |-> FALSE]

----------------------------------------------------------------------------
(* Parse *)

Named(source) == source \notin {"", "host"}

\* What becomes of an entry: the volumes it mounts, and whether it is warned of.
Mounted(volume, warned) == [ok |-> TRUE, uses |-> {volume}, warned |-> warned]
Skipped == [ok |-> TRUE, uses |-> {}, warned |-> TRUE]
Invalid == [ok |-> FALSE, uses |-> {}, warned |-> FALSE]

\* Variant: the mode is not looked at.
ShortMount_NoMode(parts) ==
    CASE Len(parts) = 1 -> Skipped
      [] Len(parts) \in {2, 3} /\ Named(parts[1]) /\ parts[2] # "" -> Mounted(parts[1], FALSE)
      [] OTHER -> Invalid

\* parseShortVolume: the parts of "target", "source:target" or "source:target:mode".
ShortMount(parts) ==
    CASE Len(parts) = 1 -> Skipped
      [] Len(parts) \in {2, 3} /\ Named(parts[1]) /\ parts[2] # "" ->
            Mounted(parts[1], Len(parts) = 3 /\ parts[Len(parts)] # "")
      [] OTHER -> Invalid

\* parseLongVolume: type, source and target; any other option is not looked at.
LongMount(m) ==
    CASE m.type \notin {"", "volume", "bind"} -> Skipped
      [] m.type \in {"", "volume"} /\ Named(m.source) /\ m.target # "" -> Mounted(m.source, FALSE)
      [] OTHER -> Invalid

\* parseServiceVolumes.
Mounts(raw) == [i \in DOMAIN raw.volumes |->
                  IF raw.volumes[i].form = "short" THEN ShortMount(raw.volumes[i].parts)
                                                   ELSE LongMount(raw.volumes[i])]
Used(raw) == UNION {Mounts(raw)[i].uses : i \in DOMAIN raw.volumes}

\* parseDependsOn: a list as it is, the keys of a mapping sorted.
WithName(names, s, n) == IF n \in names THEN Append(s, n) ELSE s
Sorted(names) ==
    LET upTo[n \in Nat] == IF n = 0 THEN <<>> ELSE WithName(names, upTo[n - 1], Alphabet[n])
    IN  upTo[Len(Alphabet)]
DependsOn(on) == IF on.form = "list" THEN on.names ELSE Sorted(ToSet(on.names))

\* parseEnvironment: a variable without a value is empty, and warned of.
Environment(raw) == [keys |-> {v.key : v \in raw.environment},
                     valueless |-> {v.key : v \in {w \in raw.environment : w.value = "none"}}]

\* parseExpose: all ports are in range, and the first one routes.
PortsInRange(raw) == \A i \in DOMAIN raw.expose : raw.expose[i] \in 1..65535

\* parseService: what is of the wrong type or out of range is an error, what
\* is not known a warning.
Malformed(raw) ==
    \/ "bad" \in {raw.image, raw.build, raw.depends.form}
    \/ \E v \in raw.environment : v.value = "bad"
    \/ ~PortsInRange(raw)
    \/ \E i \in DOMAIN raw.volumes : ~Mounts(raw)[i].ok
    \/ raw.image = "none" /\ raw.build = "none"

Service(raw) ==
    [name |-> raw.name, build |-> raw.build # "none", env |-> Environment(raw).keys,
     mounts |-> Used(raw),
     deps |-> DependsOn(raw.depends), expose |-> raw.expose]

Warnings(raw) ==
    {<<"key", k>> : k \in raw.others}
    \cup {<<"mount", i>> : i \in {j \in DOMAIN raw.volumes : Mounts(raw)[j].warned}}
    \cup {<<"expose", i>> : i \in 2..Len(raw.expose)}
    \cup {<<"env", k>> : k \in Environment(raw).valueless}
    \cup (IF raw.depends.form = "map" THEN {<<"depends_on", 0>>} ELSE {})
    \cup (IF raw.build = "listed args" THEN {<<"build.args", 0>>} ELSE {})

\* The mounts of all services, and the volumes declared at the top, are
\* compared when there is a top-level key for them.
Undeclared(doc, raw) ==
    {<<"undeclared", v>> : v \in {w \in Used(raw) : doc.volumes.form = "map" /\ w \notin doc.volumes.names}}
Unused(doc) ==
    {<<"unused", v>> : v \in
        {w \in doc.volumes.names : \A i \in DOMAIN doc.services : w \notin Used(doc.services[i])}}

Parse(doc) ==
    IF \/ doc.root = "bad" \/ doc.name = "bad" \/ doc.volumes.form = "bad"
       \/ ~IsInjective([i \in DOMAIN doc.services |-> doc.services[i].name])
       \/ \E i \in DOMAIN doc.services : Malformed(doc.services[i])
    THEN Refused
    ELSE [ok |-> TRUE, project |-> doc.name,
          services |-> [i \in DOMAIN doc.services |-> Service(doc.services[i])],
          warnings |-> {<<"top-level key", k>> : k \in doc.others} \cup Unused(doc),
          warned |-> [i \in DOMAIN doc.services |->
                        Warnings(doc.services[i]) \cup Undeclared(doc, doc.services[i])]]

----------------------------------------------------------------------------
(* BuildPlan. A file is what Parse returned; services are named here by    *)
(* their position in the file's ServiceOrder.                              *)

Positions(f) == DOMAIN f.services
Position(f, name) == {p \in Positions(f) : f.services[p].name = name}
Deps(f, p) == f.services[p].deps
Undefined(f) == \E p \in Positions(f) : \E i \in DOMAIN Deps(f, p) : Position(f, Deps(f, p)[i]) = {}
DepAt(f, p, i) == CHOOSE q \in Position(f, Deps(f, p)[i]) : TRUE

\* Variant: every dependency counts, each dependent is told once.
Indegree_Once(f, done, p) ==
    Len(Deps(f, p)) - Cardinality({DepAt(f, p, i) : i \in DOMAIN Deps(f, p)} \cap done)

\* indegree[p] when the services in done have been picked: an entry that is
\* repeated in depends_on counts twice, and is taken away twice.
Indegree(f, done, p) ==
    Len(Deps(f, p)) - Cardinality({i \in DOMAIN Deps(f, p) : DepAt(f, p, i) \in done})

\* Variant: the last one in the document first.
Pick_Last(f, done) ==
    LET free == {p \in Positions(f) \ done : Indegree(f, done, p) = 0}
    IN  IF free = {} THEN 0 ELSE CHOOSE p \in free : \A q \in free : q <= p

\* The first service of the document that waits for nothing.
Pick(f, done) ==
    LET free == {p \in Positions(f) \ done : Indegree(f, done, p) = 0}
    IN  IF free = {} THEN 0 ELSE CHOOSE p \in free : \A q \in free : p <= q

Extended(f, before) ==
    LET p == Pick(f, ToSet(before)) IN IF p = 0 THEN before ELSE Append(before, p)

\* topoOrder: as far as it gets.
TopoOrder(f) ==
    LET upTo[n \in Nat] == IF n = 0 THEN <<>> ELSE Extended(f, upTo[n - 1])
    IN  upTo[Len(f.services)]

\* findCycle: depth first, along the order of depends_on. A service on the
\* path is gray, one that is left black.

\* What is looked at from a path, in order: all services before there is one.
Looks(f, path) == IF path = <<>> THEN [p \in Positions(f) |-> p]
                  ELSE [i \in DOMAIN Deps(f, Last(path)) |-> DepAt(f, Last(path), i)]

\* The first of it that is not black, or 0.
Ahead(f, s) ==
    LET looks == Looks(f, s.path)
        left  == {i \in DOMAIN looks : looks[i] \notin s.black}
    IN  IF left = {} THEN 0 ELSE looks[Min(left)]

\* A white service is entered, one that has nothing ahead is left; a gray one
\* ahead ends the search.
Searched(f, s) ==
    LET q == Ahead(f, s)
    IN  CASE q # 0 /\ q \notin ToSet(s.path) -> [s EXCEPT !.path = Append(@, q)]
          [] q = 0 /\ s.path # <<>> -> [path |-> Front(s.path), black |-> s.black \cup {Last(s.path)}]
          [] OTHER -> s

\* No service is entered or left twice.
FindCycle(f) ==
    LET upTo[n \in Nat] == IF n = 0 THEN [path |-> <<>>, black |-> {}] ELSE Searched(f, upTo[n - 1])
        end == upTo[2 * Len(f.services)]
        q   == Ahead(f, end)
    IN  IF end.path = <<>> THEN <<>>
        ELSE Append(SubSeq(end.path, Min({i \in DOMAIN end.path : end.path[i] = q}), Len(end.path)), q)

\* planService: the app of one service. existing maps the services the project
\* has apps for to their slugs, taken is the set of aliases in use.
Rejected(project, name, existing, taken) ==
    \/ name \in BadNames \cup ReservedNames
    \/ <<project, name>> \in BadSlugs
    \/ name \in taken /\ name \notin DOMAIN existing

PlanService(project, svc, existing) ==
    [name |-> svc.name, update |-> svc.name \in DOMAIN existing,
     slug |-> IF svc.name \in DOMAIN existing THEN existing[svc.name]
              ELSE <<Normal[project], svc.name>>,
     build |-> svc.build, env |-> svc.env, deps |-> ToSet(svc.deps), mounts |-> svc.mounts,
     internal |-> svc.expose = <<>>,
     strategy |-> IF svc.mounts # {} THEN "replace" ELSE ""]

BuildPlan(f, project, existing, taken) ==
    IF \/ Normal[project] = "" \/ Undefined(f)
       \/ Len(TopoOrder(f)) < Len(f.services)
       \/ \E p \in Positions(f) : Rejected(project, f.services[p].name, existing, taken)
    THEN Refused
    ELSE [ok |-> TRUE,
          services |-> [i \in Positions(f) |-> PlanService(project, f.services[TopoOrder(f)[i]], existing)]]

----------------------------------------------------------------------------
(* What they are to compute, stated without the algorithm. *)

Edges(f) == UNION {{<<p, DepAt(f, p, i)>> : i \in DOMAIN Deps(f, p)} : p \in Positions(f)}

\* The orders in which every service comes after what it depends on, and the
\* one of them that is closest to the document's.
Orders(f) == {o \in SetToSeqs(Positions(f)) :
                \A i, j \in Positions(f) : i <= j => <<o[i], o[j]>> \notin Edges(f)}
Closest(orders) ==
    CHOOSE o \in orders : \A p \in orders :
        p = o \/ \E i \in DOMAIN o : o[i] < p[i] /\ \A j \in 1..(i - 1) : o[j] = p[j]

IsCycle(f, c) == /\ Len(c) > 1 /\ c[1] = Last(c)
                 /\ \A i \in 1..(Len(c) - 1) : <<c[i], c[i + 1]>> \in Edges(f)

\* A file is ordered if it can be ...
OrderedRight(f) == IF Orders(f) # {} THEN TopoOrder(f) = Closest(Orders(f))
                   ELSE Len(TopoOrder(f)) < Len(f.services)

\* ... and else a cycle of it is named.
PlannedRight(f) ==
    ~Undefined(f) => OrderedRight(f) /\ (Orders(f) = {} => IsCycle(f, FindCycle(f)))
=============================================================================
