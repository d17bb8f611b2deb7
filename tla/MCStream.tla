----------------------------- MODULE MCStream ------------------------------
(* Two API processes and a worker.  A behaviour starts in one of a few     *)
(* scenes: which readers and runs take part (the others have left or ended *)
(* before), which of the readers are there already, and whether the        *)
(* processes have their connection.                                        *)
EXTENDS SseStream, TLC

CONSTANTS api1, api2, r1, r2, r3, x1, x2, x3, kid, w,
          Scenes     \* [readers, runs, links, on]: the scenes of the run

Homes == [r \in Reader |-> IF r = r3 THEN api2 ELSE api1]
Froms == [x \in Run |-> IF x = x2 THEN api2 ELSE api1]
Deltas == [x \in Run |-> IF x = x1 THEN 1 ELSE 0]
Turns == [x \in Run |-> IF x = x1 THEN 2 ELSE 1]

(* Three readers come and go while the connection is being built, nobody   *)
(* publishes; a run that finds no connection; a run of two turns, seen     *)
(* from the process that submits it and from the other; two runs one after *)
(* the other; a run and its child; readers who come to a process where     *)
(* another one reads, or has read.                                         *)
Crowd == [readers |-> Reader, runs |-> {}, links |-> "none", on |-> {}]
Cold  == [readers |-> {r1}, runs |-> {x3}, links |-> "none", on |-> {}]
Near  == [readers |-> {r1}, runs |-> {x1}, links |-> "ready", on |-> {r1}]
Far   == [readers |-> {r3}, runs |-> {x1}, links |-> "ready", on |-> {r3}]
Again == [readers |-> {r1}, runs |-> {x2, x3}, links |-> "ready", on |-> {r1}]
Family == [readers |-> {r1}, runs |-> {x2, kid}, links |-> "ready", on |-> {r1}]
Share == [readers |-> {r1, r2}, runs |-> {x3}, links |-> "ready", on |-> {}]

Stays(s, r) == r \in s.readers /\ r \in s.on
Through == [by |-> w, pc |-> "done"]   \* the turn of a run that ended before

AllScenes == {Crowd, Cold, Near, Far, Again, Family, Share}
OnlyCrowd == {Crowd}

MCInit ==
  \E s \in Scenes :
    /\ link = [p \in Api |-> s.links]
    /\ builder = [p \in Api |-> NoOne]
    /\ holders = [p \in Api |-> {r \in Reader : Stays(s, r) /\ Homes[r] = p}]
    /\ bound = [p \in Api |-> \E r \in Reader : Stays(s, r) /\ Homes[r] = p]
    /\ calls = [p \in Api |-> <<>>]
    /\ wire = [p \in Api |-> <<>>]
    /\ inbox = [r \in Reader |-> <<>>]
    /\ place = [r \in Reader |-> IF r \notin s.readers THEN "gone"
                              ELSE IF Stays(s, r) THEN "on" ELSE "away"]
    /\ early = {} /\ lossy = {}
    /\ run = [x \in Run |-> [state |-> IF x \in s.runs THEN "new" ELSE "ended", n |-> 0]]
    /\ turns = [x \in Run |-> IF x \in s.runs THEN <<>> ELSE <<Through>>]
    /\ shown = [r \in Reader |-> IF Stays(s, r) THEN "subscribed" ELSE "idle"]
    /\ midway = {} /\ late = {} /\ tangled = FALSE /\ muted = FALSE /\ overtaken = {}

MCSpec == MCInit /\ [][StreamNext]_streamVars /\ StreamFairness
=============================================================================
