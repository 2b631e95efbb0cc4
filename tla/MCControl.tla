------------------------------ MODULE MCControl ------------------------------
(***************************************************************************)
(* What drives and watches a program, for TLC: the clock that processes    *)
(* share, the timer one process has of its own, the connections of its     *)
(* debugger, or a test that drives it through them.  They have no state in *)
(* common, so that a behaviour is of one of them.                          *)
(***************************************************************************)
EXTENDS GlobalTimer, TLC

CONSTANTS NULL, MaxReal, MaxOwn, Delays, Starts, MaxTimers, MaxEvents,
          Peer, Flaws, SignedChar, ReadSize, InitialAlloc, MaxCalls, MaxFrames, MaxReports,
          MS, Waits, Garbage, MaxSteps, MaxTested

VARIABLES part,   \* what the behaviour is of
          real, timer, custom, server, log, queue, hold, at, paused, began, limit,
          calls, peer, wire, frames, posted, heard, clients, clientCount, client,
          registered, delivered, reports, dump_evt, active, up,
          h, p, toTest, toProc, goal, made, clean

ownVars == <<real, timer, custom, server, log, queue, hold, at, paused, began, limit>>
peerVars == <<calls, peer, wire, frames, posted, heard, clients, clientCount, client,
              registered, delivered, reports, dump_evt, active, up>>
harnessVars == <<h, p, toTest, toProc, goal, made, clean>>

Messages == {<<2>>, <<1, 0, 1, 1>>}
ShortLong == {<<FALSE, FALSE>>, <<TRUE, FALSE>>, <<FALSE, TRUE>>}

Own == INSTANCE EventTimer WITH pc <- at, MaxTime <- MaxOwn
Debugger == INSTANCE MsgServer WITH Message <- Messages, Forms <- ShortLong,
                                    DumpNow <- {<<2>>}, Periodic <- {<<1, 0, 1, 1>>}
Test == INSTANCE ProcTest WITH MaxTime <- MaxTested, MaxCalls <- MaxSteps, up <- toTest, down <- toProc, calls <- made

ControlInit ==
  /\ part \in {"global", "own", "debugger", "test"} /\ Init /\ Own!Init /\ Debugger!Init
  /\ IF part = "test" THEN Test!HarnessInit
     ELSE h = NULL /\ p = NULL /\ toTest = NULL /\ toProc = NULL /\ goal = NULL /\ made = NULL /\ clean = FALSE

ControlNext ==
  /\ UNCHANGED part
  /\ \/ part = "global" /\ Next /\ UNCHANGED <<ownVars, peerVars, harnessVars>>
     \/ part = "own" /\ Own!Next /\ UNCHANGED <<vars, peerVars, harnessVars>>
     \/ part = "debugger" /\ Debugger!Next /\ UNCHANGED <<vars, ownVars, harnessVars>>
     \/ part = "test" /\ Test!HarnessNext /\ UNCHANGED <<vars, ownVars, peerVars>>

ControlSpec == ControlInit /\ [][ControlNext]_<<part, vars, ownVars, peerVars, harnessVars>>

\* However often the debugger held the program, its clock stands while it does.
TimeStands == Own!TimeStands

\* A block call that times out finds an event due on the program's clock.
WakesWhenDue == Own!WakesWhenDue

\* The server is a channel of messages: none is lost, repeated or reordered.
ImplementsChannel == Debugger!ImplementsChannel

\* No complete frame stays in the buffer when the server waits for more.
NothingLeftBehind == Debugger!NothingLeftBehind

\* While a test's sequence runs, the process under test stands still.
Synchronous == Test!Synchronous

ControlSymmetry == Permutations(Proc) \cup Permutations(Peer)
=============================================================================
