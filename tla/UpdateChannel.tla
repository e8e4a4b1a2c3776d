---------------------------- MODULE UpdateChannel ----------------------------
(***************************************************************************)
(* What a path of frame buffers promises, whatever threads, locks and      *)
(* messages it is made of.  A picture is painted from a copy and the copy  *)
(* is taken from the source; a viewer is owed the points at which its      *)
(* picture or its copy may be out of date.  Nothing shows a value that did *)
(* not come down the path, and a point ceases to be owed only by being     *)
(* painted with what the source holds at that moment.                      *)
(***************************************************************************)
EXTENDS Integers

CONSTANTS Viewers, Points, Colors

VARIABLES
  source,    (* where the path begins: a frame buffer                        *)
  copy,      (* each viewer's frame buffer between source and picture        *)
  picture,   (* what each viewer shows                                       *)
  owed       (* the points an update is owed for                             *)

channelVars == <<source, copy, picture, owed>>

Buffers == [Points -> Colors]

ChannelTypes ==
  /\ source \in Buffers
  /\ copy \in [Viewers -> Buffers] /\ picture \in [Viewers -> Buffers]
  /\ owed \in [Viewers -> SUBSET Points]

(* What is not owed is up to date.                                         *)
Settled ==
  \A v \in Viewers : \A p \in Points \ owed[v] :
    copy[v][p] = source[p] /\ picture[v][p] = source[p]

Init == ChannelTypes /\ Settled

Taken(buffer, from, points) ==
  [p \in Points |-> IF p \in points THEN from[p] ELSE buffer[p]]

(* The source changes: every viewer is owed the change, and may be owed    *)
(* more.                                                                   *)
Change ==
  /\ source' \in Buffers
  /\ owed' \in [Viewers -> SUBSET Points]
  /\ \A v \in Viewers :
       owed[v] \cup {p \in Points : source'[p] # source[p]} \subseteq owed'[v]
  /\ UNCHANGED <<copy, picture>>

Fetch(v, points) ==
  /\ copy' = [copy EXCEPT ![v] = Taken(@, source, points)]
  /\ UNCHANGED <<source, picture, owed>>

(* What is painted out of a copy that is behind stays owed.                *)
Paint(v, points) ==
  /\ picture' = [picture EXCEPT ![v] = Taken(@, copy[v], points)]
  /\ owed' \in [Viewers -> SUBSET Points]
  /\ \A w \in Viewers \ {v} : owed'[w] = owed[w]
  /\ owed[v] \ {p \in points : copy[v][p] = source[p]} \subseteq owed'[v]
  /\ UNCHANGED <<source, copy>>

Next ==
  \/ Change
  \/ \E v \in Viewers, points \in SUBSET Points : Fetch(v, points) \/ Paint(v, points)

Spec == Init /\ [][Next]_channelVars
=============================================================================
