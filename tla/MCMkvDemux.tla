----------------------------- MODULE MCMkvDemux -----------------------------
(***************************************************************************)
(* MkvDemux for TLC: a file of two clusters with a video and an audio      *)
(* track, whose ring cannot hold a whole cluster and whose cache holds two *)
(* records, so that both buffers fill, in either order.                    *)
(***************************************************************************)
EXTENDS MkvDemux

CONSTANTS v, a

MCTrackOrder == <<v, a>>

Frame(id, track, tick, entry, size) ==
  [id |-> id, track |-> track, tick |-> tick, entry |-> entry, size |-> size]

MCFile ==
  << << Frame(1, v, 0, TRUE, 2), Frame(2, a, 0, TRUE, 1), Frame(3, v, 1, FALSE, 1) >>,
     << Frame(4, v, 2, TRUE, 1), Frame(5, a, 2, TRUE, 1), Frame(6, v, 3, FALSE, 1) >> >>

MCCues == << [time |-> 0, cluster |-> 1], [time |-> 2, cluster |-> 2] >>

Scenario(ts, ops, cs, es) ==
  [tracks |-> ts, ops |-> ops, cues |-> cs, early |-> es]

AllOps  == {"get", "seek", "close"}
Viewer  == Scenario({v}, AllOps, MCCues, {v})
Player  == Scenario({v, a}, AllOps, MCCues, {})
NoIndex == Scenario({a}, AllOps, <<>>, {v})

AllProfiles    == {Viewer, Player, NoIndex}
ViewerProfiles == {Scenario({v}, AllOps, MCCues, {})}
ReaderProfiles == {Scenario({v}, {"get"}, MCCues, {})}
SeekerProfiles == {Scenario({v}, {"seek"}, MCCues, {})}
OpenerProfiles == {Scenario({v}, {"seek"}, MCCues, {v})}
=============================================================================
