------------------------------ MODULE Evidence ------------------------------
(***************************************************************************)
(* What rebuild_event works out from all rows of an event at once: how many*)
(* origins confirm it, from the upstreams that its reports name, and       *)
(* whether its CAP references close a cycle.  Items are those of Providers,*)
(* with the networks of a USGS feature and the agencies that a GDACS item  *)
(* declares.                                                               *)
(***************************************************************************)
EXTENDS Providers

CONSTANTS
  NetworkOrigin,    \* NetworkOrigin[n]: usgs:n
  UnknownOrigins    \* those that start with unknown:

(* _ORIGINS of EONET.                                                      *)
OriginOf == [
  USGS_EHP |-> "usgs", USGS_CMT |-> "usgs", HDDS |-> "usgs", AVO |-> "usgs",
  FIRMS |-> "nasa:firms", GWIS |-> "nasa:firms", NOAA_NHC |-> "noaa:nhc", NOAA_CPC |-> "noaa:cpc",
  JTWC |-> "jtwc", IRWIN |-> "us:interagency_fire", InciWeb |-> "us:interagency_fire",
  SIVolcano |-> "smithsonian:gvp"]

OrUnknown(origins, unknown) == IF origins = {} THEN {unknown} ELSE origins

UsgsOrigins(f) == OrUnknown({NetworkOrigin[n] : n \in f.networks}, "usgs")

GdacsOrigins(i) ==
  OrUnknown((IF i.kind = "WF" THEN {"nasa:firms"} ELSE {}) \cup i.declared
              \cup {"usgs" : key \in UsgsLinks(i)}, "unknown:gdacs")

EonetOrigins(r) ==
  LET origin(s) ==
        CASE s.id = "GDACS" -> IF "wildfires" \in Categories(r) THEN "nasa:firms" ELSE "unknown:gdacs"
          [] s.id \in DOMAIN OriginOf -> OriginOf[s.id]
          [] OTHER -> "unknown:eonet"
  IN OrUnknown({origin(s) : s \in r.sources}, "unknown:eonet")

(* A report of several origins is not several confirmations, nor is one of *)
(* unknown lineage.                                                        *)
Family(o) ==
  CASE o \in {"usgs"} \cup Range(NetworkOrigin) -> "usgs"
    [] o \in {"gwis", "firms", "nasa:firms"} -> "nasa:firms"
    [] OTHER -> o
Families(origins) == {Family(o) : o \in origins \ UnknownOrigins}

IndependentOrigins(reports) ==
  Max({1, Cardinality(UNION {f \in {Families(o) : o \in reports} : Cardinality(f) = 1})})

(* _assert_cap_acyclic: records that nothing ready refers to are taken off *)
(* one by one; what a cycle holds is never visited.                        *)
Edges(rows) ==
  LET ids == {p.rec : p \in rows} IN
  [r \in ids |-> {t \in ids : \E p \in rows : p.rec = r /\ t \in p.refs}]

Visit(edges, s) ==
  LET left == [t \in DOMAIN edges |-> s.incoming[t] - (IF t \in edges[Last(s.ready)] THEN 1 ELSE 0)]
      freed == {t \in edges[Last(s.ready)] : left[t] = 0}
  IN IF s.ready = <<>> THEN s
     ELSE [ready |-> Front(s.ready) \o SetToSeq(freed), incoming |-> left, visited |-> s.visited + 1]

VisitsAll(rows) ==
  LET edges == Edges(rows)
      incoming == [t \in DOMAIN edges |-> Cardinality({r \in DOMAIN edges : t \in edges[r]})]
      start == [ready |-> SetToSeq({t \in DOMAIN edges : incoming[t] = 0}), incoming |-> incoming, visited |-> 0]
      end == FoldLeft(LAMBDA s, n : Visit(edges, s), start, [n \in 1..Cardinality(rows) |-> n])
  IN end.visited = Cardinality(DOMAIN edges)
=============================================================================
