---------------------------- MODULE DaemonProcess ----------------------------
(***************************************************************************)
(* Daemon processes and what other commands find of them: registration     *)
(* with its retries (internal/agent/daemon.go), the state file             *)
(* (internal/agent/state.go), the signal path of main                      *)
(* (internal/cmd/daemon.go) with the final sync beside it, and the         *)
(* commands that look for a daemon to signal (internal/cmd/                *)
(* daemon_control.go, reload_unix.go).                                     *)
(*                                                                         *)
(* A process has a main and a loop, the goroutine that registers and       *)
(* syncs.  A new daemon may be started while the old one still runs or     *)
(* shuts down; any of them may be killed.                                  *)
(***************************************************************************)
EXTENDS Integers, FiniteSets

CONSTANTS MaxRegistrations,  \* attempts to register: 5 in the code
          MaxDaemons,        \* bound: daemons started
          Losses             \* bound: calls, to the server or of a file, that fail

ASSUME ProcessAssumption == MaxRegistrations \in Nat \ {0} /\ MaxDaemons \in Nat \ {0} /\ Losses \in Nat

VARIABLES main,       \* pid -> where its main is
          agent,      \* pid -> where its loop is
          attempt,    \* pid -> its attempts to register
          final,      \* the pids whose loop is at its final sync
          stateFile,  \* the pid in daemon.state.json, 0 when there is none
          tmpFile,    \* the pid in the file that is renamed to it
          online,     \* the pid the server heard of last, 0 when it said goodbye
          stopped,    \* the pids that ended as they should
          losses

processVars == <<main, agent, attempt, final, stateFile, tmpFile, online, stopped, losses>>

Pids == 1..MaxDaemons

Torn == -1   \* what is in a file that was not written to its end

ProcessInit ==
  /\ main = [p \in Pids |-> "none"]
  /\ agent = [p \in Pids |-> "none"]
  /\ attempt = [p \in Pids |-> 1]
  /\ final = {} /\ stopped = {} /\ losses = 0
  /\ stateFile = 0 /\ tmpFile = 0 /\ online = 0

MainGoes(p, from, to) == main[p] = from /\ main' = [main EXCEPT ![p] = to]

LoopGoes(p, from, to) == agent[p] = from /\ agent' = [agent EXCEPT ![p] = to]

CtxDone(p) == main[p] \notin {"none", "up", "closing", "failing"}

\* The process ends, whatever its loop is doing.
Exits(p) ==
  /\ agent' = [agent EXCEPT ![p] = "ended"]
  /\ tmpFile' \in {tmpFile} \cup (IF agent[p] = "writing" THEN {Torn} ELSE {})

Loses == losses < Losses /\ losses' = losses + 1

-----------------------------------------------------------------------------
\* The loop: Register, and then the syncs.

RegisterOk(p) ==
  /\ LoopGoes(p, "registering", "writing")
  /\ online' = p
  /\ UNCHANGED <<main, attempt, final, stateFile, tmpFile, stopped, losses>>

\* After a transient error it waits, also after the last attempt, whose error is main's
\* then; any other error is main's at once.
RegisterFails(p) ==
  /\ Loses
  /\ LoopGoes(p, "registering", "backing off")
  /\ UNCHANGED <<main, attempt, final, stateFile, tmpFile, online, stopped>>

RegisterRefused(p) ==
  /\ Loses
  /\ LoopGoes(p, "registering", "failed")
  /\ UNCHANGED <<main, attempt, final, stateFile, tmpFile, online, stopped>>

BackedOff(p) ==
  /\ IF attempt[p] = MaxRegistrations THEN LoopGoes(p, "backing off", "failed")
                                      ELSE LoopGoes(p, "backing off", "registering")
  /\ attempt' = [attempt EXCEPT ![p] = @ + 1]
  /\ UNCHANGED <<main, final, stateFile, tmpFile, online, stopped, losses>>

RegisterStops(p) ==
  /\ CtxDone(p)
  /\ LoopGoes(p, "registering", "failed") \/ LoopGoes(p, "backing off", "failed")
  /\ UNCHANGED <<main, attempt, final, stateFile, tmpFile, online, stopped, losses>>

\* WriteState ends, whatever came of it.
Writes(p, from) ==
  agent[p] = from /\ agent' = [agent EXCEPT ![p] = IF p \in final THEN "ended" ELSE "waiting"]

\* WriteState: a temporary file, one for all daemons, and a rename.
WriteTmp(p) ==
  /\ \/ LoopGoes(p, "writing", "renaming") /\ tmpFile' = p /\ UNCHANGED losses
     \/ Writes(p, "writing") /\ tmpFile' \in {tmpFile, Torn} /\ Loses
  /\ UNCHANGED <<main, attempt, final, stateFile, online, stopped>>

RenameTmp(p) ==
  /\ Writes(p, "renaming")
  /\ \/ tmpFile # 0 /\ stateFile' = tmpFile /\ tmpFile' = 0 /\ UNCHANGED losses
     \/ UNCHANGED <<stateFile, tmpFile>> /\ IF tmpFile = 0 THEN UNCHANGED losses ELSE Loses
  /\ UNCHANGED <<main, attempt, final, online, stopped>>

\* A tick or a trigger; select may prefer it to the end of the context.
SyncBegins(p) ==
  /\ LoopGoes(p, "waiting", "syncing")
  /\ UNCHANGED <<main, attempt, final, stateFile, tmpFile, online, stopped, losses>>

\* The context is done: one more sync, with a context of its own.
FinalSync(p) ==
  /\ CtxDone(p)
  /\ LoopGoes(p, "waiting", "syncing")
  /\ final' = final \cup {p}
  /\ UNCHANGED <<main, attempt, stateFile, tmpFile, online, stopped, losses>>

\* (Mutant: the state is written once, at registration.)
SyncOkNoWrite(p) ==
  /\ agent[p] = "syncing"
  /\ agent' = [agent EXCEPT ![p] = IF p \in final THEN "ended" ELSE "waiting"]
  /\ online' = p
  /\ UNCHANGED <<main, attempt, final, stateFile, tmpFile, stopped, losses>>

\* OnSyncSuccess writes the state.
SyncOk(p) ==
  /\ LoopGoes(p, "syncing", "writing")
  /\ online' = p
  /\ UNCHANGED <<main, attempt, final, stateFile, tmpFile, stopped, losses>>

SyncFails(p) ==
  /\ agent[p] = "syncing"
  /\ IF CtxDone(p) /\ p \notin final THEN UNCHANGED losses ELSE Loses
  /\ agent' = [agent EXCEPT ![p] = IF p \in final THEN "ended" ELSE "waiting"]
  /\ UNCHANGED <<main, attempt, final, stateFile, tmpFile, online, stopped>>

LoopStep(p) ==
  RegisterOk(p) \/ RegisterFails(p) \/ RegisterRefused(p) \/ BackedOff(p) \/ RegisterStops(p)
  \/ WriteTmp(p) \/ RenameTmp(p) \/ SyncBegins(p) \/ FinalSync(p) \/ SyncOk(p) \/ SyncFails(p)

-----------------------------------------------------------------------------
\* Main.

\* Nothing looks whether a daemon is running already.
Start(p) ==
  /\ \A q \in 1..(p - 1) : main[q] # "none"
  /\ MainGoes(p, "none", "up")
  /\ LoopGoes(p, "none", "registering")
  /\ UNCHANGED <<attempt, final, stateFile, tmpFile, online, stopped, losses>>

\* The loop's error ends the process; the state file stays as it is.
MainFails(p) ==
  /\ agent[p] = "failed"
  /\ MainGoes(p, "up", "failing")
  /\ UNCHANGED <<agent, attempt, final, stateFile, tmpFile, online, stopped, losses>>

\* SIGINT or SIGTERM.
Signal(p) ==
  /\ MainGoes(p, "up", "closing")
  /\ UNCHANGED <<agent, attempt, final, stateFile, tmpFile, online, stopped, losses>>

\* Either way the stream server is shut down first, with a context that is never done: the
\* wait lasts as long as a request to it.  Then the context is cancelled, and after a signal
\* the downloads are given 30 s.
StreamsClosed(p) ==
  /\ \/ MainGoes(p, "closing", "draining") /\ UNCHANGED <<agent, tmpFile>>
     \/ MainGoes(p, "failing", "exited") /\ Exits(p)
  /\ UNCHANGED <<attempt, final, stateFile, online, stopped, losses>>

Drained(p) ==
  /\ MainGoes(p, "draining", "deregistering")
  /\ UNCHANGED <<agent, attempt, final, stateFile, tmpFile, online, stopped, losses>>

\* Deregister, registered or not: the answer does not matter.
Deregister(p) ==
  /\ MainGoes(p, "deregistering", "removing")
  /\ \/ online' = 0 /\ UNCHANGED losses
     \/ Loses /\ UNCHANGED online
  /\ UNCHANGED <<agent, attempt, final, stateFile, tmpFile, stopped>>

\* RemoveState: whosever it is by now.
RemoveState(p) ==
  /\ MainGoes(p, "removing", "returning")
  /\ stateFile' = 0
  /\ UNCHANGED <<agent, attempt, final, tmpFile, online, stopped, losses>>

\* Main returns; nobody waits for the loop.
MainReturns(p) ==
  /\ MainGoes(p, "returning", "exited")
  /\ Exits(p)
  /\ stopped' = stopped \cup {p}
  /\ UNCHANGED <<attempt, final, stateFile, online, losses>>

Kill(p) ==
  /\ main[p] \notin {"none", "exited"}
  /\ main' = [main EXCEPT ![p] = "exited"]
  /\ Exits(p)
  /\ UNCHANGED <<attempt, final, stateFile, online, stopped, losses>>

MainStep(p) == MainFails(p) \/ Drained(p) \/ Deregister(p) \/ RemoveState(p) \/ MainReturns(p)

\* unarr stop signals the pid in the state file; the service manager and the keyboard
\* the process itself.  (reload signals it too: the configuration it reads is dropped.)
Stop == stateFile \in Pids /\ Signal(stateFile)

ProcessNext ==
  \/ Stop
  \/ \E p \in Pids : Start(p) \/ Signal(p) \/ Kill(p) \/ StreamsClosed(p) \/ MainStep(p) \/ LoopStep(p)

\* StreamsClosed is not among them.
ProcessFairness ==
  \A p \in Pids : WF_processVars(LoopStep(p)) /\ WF_processVars(MainStep(p))

ProcessSpec == ProcessInit /\ [][ProcessNext]_processVars /\ ProcessFairness

-----------------------------------------------------------------------------
\* Properties.

Running(p) ==
  main[p] \in {"up", "closing"} /\ agent[p] \in {"waiting", "syncing", "writing", "renaming"}

Alone(p) == \A q \in Pids \ {p} : main[q] \in {"none", "exited"}

\* A daemon that is running, and alone, is found in the state file and is online, sooner or
\* later (once its calls do not fail): also when the one it replaced said goodbye for both,
\* removed its file, or died while it wrote the temporary file or before it renamed it
\* (agent/daemon.go 188-194, state.go 48-53).  Two that run beside each other can rename
\* each other's for ever.
RunningIsFound ==
  \A p \in Pids :
    (Running(p) /\ Alone(p)) ~> ((stateFile = p /\ online = p) \/ ~(Running(p) /\ Alone(p)))

\* A daemon that stopped as it should leaves no state file (agent/state.go 69; violated:
\* see the README).
StoppedIsForgotten == \A p \in stopped : stateFile # p
=============================================================================
