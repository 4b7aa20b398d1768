---------------------------- MODULE DebugPoints ----------------------------
(***************************************************************************)
(* What hardware breakpoints and watchpoints promise.  A live thread stops *)
(* at the points GDB was told are in place, those its debug registers can  *)
(* hold, whenever it joined; and at nothing else but strays.  A stray is a *)
(* point GDB was not told of, or was told is gone: what a thread that left *)
(* was armed with stays on its TCB, and a point some thread refused stays  *)
(* on those asked before it.  Nothing else makes a stray, a removal or a   *)
(* detach least of all.                                                    *)
(***************************************************************************)
CONSTANTS Tcb,       \* threads
          Point,     \* breakpoints and watchpoints GDB asks for
          Refused    \* pairs of a thread and a point its registers cannot hold

VARIABLES active,    \* the points GDB was told are in place
          live,      \* the threads there are
          stops,     \* for every thread, all its debug registers hold
          stray      \* for every thread, those it holds for no active point

Holds(t) == {p \in Point : <<t, p>> \notin Refused}
Armed ==
  stops = [t \in Tcb |->
             stray[t] \cup (IF t \in live THEN active \cap Holds(t) ELSE {})]

\* The threads of S may lose strays; no thread gets one.
Fades(S) ==
  \A t \in Tcb : /\ stray'[t] \subseteq stray[t]
                 /\ t \notin S => stray'[t] = stray[t]

Init == /\ active = {} /\ live = {}
        /\ stops = [t \in Tcb |-> {}] /\ stray = [t \in Tcb |-> {}]

Insert(p) == /\ live \subseteq {t \in Tcb : p \in Holds(t)}
             /\ active' = active \cup {p}
             /\ Fades(live) /\ UNCHANGED live
Refuse(p) == /\ \E t \in live : p \notin Holds(t)
             /\ \A t \in Tcb :
                  /\ stray'[t] \subseteq stray[t] \cup {p}
                  /\ t \notin live => stray'[t] = stray[t]
             /\ UNCHANGED <<active, live>>
Remove(p) == /\ active' = active \ {p}
             /\ Fades(live) /\ UNCHANGED live
ClearAll == /\ active' = {}
            /\ Fades(live) /\ UNCHANGED live
Join(t) == /\ t \notin live /\ live' = live \cup {t}
           /\ Fades({t}) /\ UNCHANGED active
Leave(t) == /\ t \in live /\ live' = live \ {t}
            /\ stray' = [stray EXCEPT ![t] = stops[t]]
            /\ UNCHANGED active

Next == /\ \/ \E p \in Point : Insert(p) \/ Refuse(p) \/ Remove(p)
           \/ \E t \in Tcb : Join(t) \/ Leave(t)
           \/ ClearAll
        /\ Armed'

Spec == Init /\ [][Next]_<<active, live, stops, stray>>
=============================================================================
