------------------------------- MODULE Previews -------------------------------
(***************************************************************************)
(* The preview of a Session: one dev server in the sandbox, started and    *)
(* stopped by participants, and the URL the Session serves it under.       *)
(* Commands go over the socket into a queue of their own, which runs one   *)
(* command to its end before the next; PreviewManager spawns the server,   *)
(* waits until its port answers, starts it again when it crashes, and      *)
(* reports.  The object mints a token for each preview_ready, and awaits   *)
(* its hash, while it goes on to the messages behind it.                   *)
(*                                                                         *)
(* A deferred command, a paused sandbox and the socket are modelled in     *)
(* SandboxLifecycle; here messages arrive in order.  Left out: what pages  *)
(* contain, the tokens themselves, dev servers that participants run by    *)
(* other means, a restart of the sandbox's agent, which forgets its        *)
(* preview.  External: the processes and their ports.                      *)
(***************************************************************************)
EXTENDS Integers, Sequences, FiniteSets

CONSTANTS
    Dirs,           \* workspace directories of the repository
    Has,            \* which files say how to run them
    MaxRestarts,    \* MAX_PREVIEW_AUTO_RESTARTS
    MaxCommands,    \* bound: commands of participants
    MaxCrashes      \* bound: servers that exit by themselves

Files == {"package.json", "Makefile", "justfile", "manage.py", "rails"}
ASSUME PreviewAssumption ==
    /\ Has \in [Dirs -> SUBSET Files]
    /\ MaxRestarts \in Nat /\ MaxCommands \in Nat /\ MaxCrashes \in Nat

VARIABLES
    commands,   \* how many commands there were
    toSandbox,  \* commands under way to the sandbox and in its queue
    manager,    \* PreviewManager, with its fields
    ops,        \* where the command at work and the automatic restart await something
    servers,    \* the processes that were spawned
    crashes,
    toObject,   \* messages under way to the object
    hashing,    \* apps whose preview_ready awaits the hash of its token
    active,     \* the app of an active preview, preview_active and preview_port
    shown,      \* what the projection shows of the preview
    overtaken   \* a preview_ready took effect after a message that came later

managerVars == <<manager, ops, servers, crashes>>
objectVars == <<hashing, active, shown, overtaken>>
previewVars == <<commands, toSandbox, managerVars, toObject, objectVars>>

None == "none"
Stop == "stop"
Unknown == "unknown"    \* an app that is not there, or not yet

-----------------------------------------------------------------------------
(* detectPreviewApps: at most one app of a directory *)

Runnable == {d \in Dirs : Has[d] # {}}
\* The first of the files that is there decides.
Framework(d) ==
    CASE "package.json" \in Has[d] -> "npm"
      [] "Makefile" \in Has[d] -> "make"
      [] "justfile" \in Has[d] -> "just"
      [] "manage.py" \in Has[d] -> "django"
      [] OTHER -> "rails"

PortOf(d) == [npm |-> 8080, make |-> 8080, just |-> 8080, django |-> 8000, rails |-> 3001][Framework(d)]

\* resolvePreviewSpawn: "bin/rails" is not on the list of executables.
Executable(d) == [npm |-> "npm", make |-> "make", just |-> "just", django |-> "python",
                  rails |-> "rails"][Framework(d)]
Allowed == {"npm", "make", "just", "python"}
Rejected(d) == Executable(d) \notin Allowed

-----------------------------------------------------------------------------
(* Processes *)

Alive(c) == servers[c].is # "dead"
Serves(c) == servers[c].is = "serving"
Answers(port) == \E c \in DOMAIN servers : Serves(c) /\ PortOf(servers[c].app) = port

NoOp == [at |-> "idle"]
Doing(o, at) == ops[o].at = at
Tells(messages) == toObject' = toObject \o messages
Quietly == UNCHANGED toObject

\* terminateChild, up to the exit it awaits.
Ending(m) == [servers EXCEPT ![m.child].told = TRUE]
Forgotten(m) == [m EXCEPT !.state = "idle"]

-----------------------------------------------------------------------------
(* PreviewManager.start *)

\* From onStarting to the wait for the port.
Spawns(o, app, m, running) ==
    IF Rejected(app)
      THEN /\ Tells(<<[is |-> "starting", app |-> app], [is |-> "error", app |-> app]>>)
           /\ manager' = m /\ servers' = running /\ ops' = [ops EXCEPT ![o] = NoOp]
      ELSE /\ Tells(<<[is |-> "starting", app |-> app]>>)
           /\ servers' = Append(running, [app |-> app, is |-> "young", told |-> FALSE])
           /\ manager' = [m EXCEPT !.state = "starting", !.app = app, !.child = Len(running) + 1]
           /\ ops' = [ops EXCEPT ![o] = [at |-> "ready", app |-> app, child |-> Len(running) + 1]]

ReplacesRunning(m) == m.state = "running"
Replaces(m) == m.state # "idle"
StartsApp(app) ==
    LET m == [manager EXCEPT !.made = TRUE, !.stopping = FALSE, !.gen = @ + 1]
    IN  IF m.state = "running" /\ m.app = app THEN
            /\ manager' = m /\ Tells(<<[is |-> "ready", app |-> app]>>)
            /\ UNCHANGED <<ops, servers>>
        ELSE IF Replaces(m) THEN
            /\ manager' = Forgotten(m) /\ servers' = Ending(m)
            /\ ops' = [ops EXCEPT !.queue = [at |-> "reap", app |-> app, child |-> m.child]]
            /\ Quietly
        ELSE Spawns("queue", app, m, servers)

Reaped ==
    /\ Doing("queue", "reap") /\ ~Alive(ops.queue.child)
    /\ Spawns("queue", ops.queue.app, manager, servers)
    /\ UNCHANGED <<commands, toSandbox, crashes, objectVars>>

\* The port answers, whoever does.
IsReady(o) ==
    /\ Doing(o, "ready") /\ Answers(PortOf(ops[o].app))
    /\ manager.state = "starting" /\ manager.child = ops[o].child
    /\ manager' = [manager EXCEPT !.state = "running", !.restarts = 0]
    /\ ops' = [ops EXCEPT ![o] = NoOp]
    /\ Tells(<<[is |-> "ready", app |-> ops[o].app]>>)
    /\ UNCHANGED <<commands, toSandbox, servers, crashes, objectVars>>

\* stop, as far as the exit of the child it awaits.
Stopping(m) == [m EXCEPT !.stopping = TRUE, !.gen = @ + 1, !.restarts = 0]

\* It did not answer in time.
TimesOut(o) ==
    /\ Doing(o, "ready") /\ ~Answers(PortOf(ops[o].app))
    /\ manager.state = "starting" /\ manager.child = ops[o].child
    /\ manager' = Forgotten(Stopping(manager)) /\ servers' = Ending(manager)
    /\ ops' = [ops EXCEPT ![o] = [at |-> "fail", app |-> @.app, child |-> @.child,
                                  gen |-> manager'.gen]]
    /\ Quietly /\ UNCHANGED <<commands, toSandbox, crashes, objectVars>>

\* The child that did not answer is gone: reported unless a command came meanwhile.
IsNextToLatest(o) == ops[o].gen + 1 = manager.gen
IsLatest(o) == ops[o].gen = manager.gen
FailedIsGone(o) ==
    /\ Doing(o, "fail") /\ ~Alive(ops[o].child)
    /\ ops' = [ops EXCEPT ![o] = NoOp]
    /\ Tells(IF IsLatest(o)
               THEN <<[is |-> "stopped", app |-> ops[o].app], [is |-> "error", app |-> ops[o].app]>>
               ELSE <<>>)
    /\ UNCHANGED <<commands, toSandbox, manager, servers, crashes, objectVars>>

-----------------------------------------------------------------------------
(* PreviewManager.stop, for a command *)

NoManager == [made |-> FALSE, state |-> "idle", app |-> None, child |-> 0, restarts |-> 0,
              stopping |-> FALSE, gen |-> 0]
\* this.preview = undefined; a restart of the old manager compares with its own.
Discarded(m) == [NoManager EXCEPT !.gen = m.gen, !.stopping = m.stopping]

StopsApp ==
    IF ~manager.made THEN Quietly /\ UNCHANGED <<manager, ops, servers>>
    ELSE IF manager.state = "idle" THEN
        /\ manager' = Discarded(Stopping(manager))
        /\ Tells(<<[is |-> "stopped", app |-> None]>>) /\ UNCHANGED <<ops, servers>>
    ELSE
        /\ manager' = Forgotten(Stopping(manager)) /\ servers' = Ending(manager)
        /\ ops' = [ops EXCEPT !.queue = [at |-> "stop", app |-> None, child |-> manager.child]]
        /\ Quietly

Stopped ==
    /\ Doing("queue", "stop") /\ ~Alive(ops.queue.child)
    /\ manager' = Discarded(manager) /\ ops' = [ops EXCEPT !.queue = NoOp]
    /\ Tells(<<[is |-> "stopped", app |-> None]>>)
    /\ UNCHANGED <<commands, toSandbox, servers, crashes, objectVars>>

-----------------------------------------------------------------------------
(* The preview queue of the dispatcher, handlePreviewStart and handlePreviewStop *)

Takes ==
    /\ ops.queue = NoOp /\ toSandbox # <<>> /\ toSandbox' = Tail(toSandbox)
    /\ LET command == Head(toSandbox)
       IN  \/ command \in Runnable /\ StartsApp(command)
           \/ command = Stop /\ StopsApp
           \/ /\ command = Unknown /\ Tells(<<[is |-> "error", app |-> None]>>)
              /\ UNCHANGED <<manager, ops, servers>>
    /\ UNCHANGED <<commands, crashes, objectVars>>

-----------------------------------------------------------------------------
(* What the processes do, and the exit handler *)

Binds(c) ==
    /\ servers[c].is = "young" /\ ~servers[c].told /\ ~Answers(PortOf(servers[c].app))
    /\ servers' = [servers EXCEPT ![c].is = "serving"]
    /\ UNCHANGED <<commands, toSandbox, manager, ops, crashes, toObject, objectVars>>

Dead(c) == [servers EXCEPT ![c].is = "dead"]

\* A child that was told to end does; a start that waits for it gives up.
Ends(c) ==
    /\ Alive(c) /\ servers[c].told /\ servers' = Dead(c)
    /\ ops' = [o \in DOMAIN ops |-> IF Doing(o, "ready") /\ ops[o].child = c THEN NoOp ELSE ops[o]]
    /\ UNCHANGED <<commands, toSandbox, manager, crashes, toObject, objectVars>>

\* The child the manager tracks exits: before it was ready, its start fails; after,
\* it is started again, or given up.
WaitsFor(c) == CHOOSE o \in DOMAIN ops : Doing(o, "ready") /\ ops[o].child = c
Crashes(c) ==
    /\ Alive(c) /\ ~servers[c].told
    /\ crashes < MaxCrashes /\ crashes' = crashes + 1
    /\ IF manager.state = "starting" THEN
           /\ manager' = Forgotten(Stopping(manager)) /\ servers' = Dead(c)
           /\ ops' = [ops EXCEPT ![WaitsFor(c)] = NoOp]
           /\ Tells(<<[is |-> "stopped", app |-> None], [is |-> "error", app |-> servers[c].app]>>)
       ELSE IF manager.restarts < MaxRestarts THEN
           Spawns("auto", servers[c].app, [manager EXCEPT !.restarts = @ + 1], Dead(c))
       ELSE
           /\ manager' = Forgotten([manager EXCEPT !.restarts = 0]) /\ servers' = Dead(c)
           /\ Tells(<<[is |-> "stopped", app |-> None]>>) /\ UNCHANGED ops
    /\ UNCHANGED <<commands, toSandbox, objectVars>>

-----------------------------------------------------------------------------
(* The object and its clients *)

\* The toggle is off the board while the preview is starting; another client may
\* still have sent its command before it saw so.
Commanded(command) ==
    /\ commands < MaxCommands /\ commands' = commands + 1
    /\ toSandbox' = Append(toSandbox, command)
    /\ UNCHANGED <<managerVars, toObject, objectVars>>

\* revokePreview; nothing waits for the tokens that are being hashed.
RevokesOnStop(message) ==
    /\ active' = (IF message = "stopped" THEN None ELSE active) /\ shown' = message
    /\ overtaken' = (overtaken \/ hashing # <<>>) /\ UNCHANGED hashing
Revokes(message) ==
    /\ active' = None /\ shown' = message
    /\ overtaken' = (overtaken \/ hashing # <<>>) /\ UNCHANGED hashing
Receives ==
    /\ toObject # <<>> /\ toObject' = Tail(toObject)
    /\ LET message == Head(toObject)
       IN  \/ message.is \in {"error", "stopped"} /\ Revokes(message.is)
           \/ message.is = "starting" /\ shown' = "starting" /\ UNCHANGED <<hashing, active, overtaken>>
           \/ /\ message.is = "ready" /\ hashing' = Append(hashing, message.app)
              /\ UNCHANGED <<active, shown, overtaken>>
    /\ UNCHANGED <<commands, toSandbox, managerVars>>

\* fetchPreviewWithRetries: 502, 503 and 504 are tried again, twice.
Fetched(port) == IF Answers(port) THEN "page" ELSE "bad gateway"

\* validatePreviewAccess, proxyPreviewRequest: what a browser gets under the URL.
IsServed == active # None
Proxied == IF IsServed THEN Fetched(PortOf(active)) ELSE "not active"

\* handleSandboxPreviewReady goes on.
WithoutIt(i) == SubSeq(hashing, 1, i - 1) \o SubSeq(hashing, i + 1, Len(hashing))
Hashed(i) ==
    /\ active' = hashing[i] /\ shown' = "ready"
    /\ hashing' = WithoutIt(i) /\ overtaken' = (overtaken \/ i > 1)
    /\ UNCHANGED <<commands, toSandbox, managerVars, toObject>>

-----------------------------------------------------------------------------
PreviewInit ==
    /\ commands = 0 /\ toSandbox = <<>>
    /\ manager = NoManager /\ ops = [queue |-> NoOp, auto |-> NoOp]
    /\ servers = <<>> /\ crashes = 0
    /\ toObject = <<>> /\ hashing = <<>>
    /\ active = None /\ shown = None /\ overtaken = FALSE

Servers == 1 .. MaxCommands + MaxCrashes
Manages ==
    \/ Takes \/ Reaped \/ Stopped
    \/ \E o \in DOMAIN ops : IsReady(o) \/ TimesOut(o) \/ FailedIsGone(o)
PreviewNext ==
    \/ \E command \in Runnable \cup {Stop, Unknown} : Commanded(command)
    \/ Manages
    \/ \E c \in Servers \cap DOMAIN servers : Binds(c) \/ Ends(c) \/ Crashes(c)
    \/ Receives \/ \E i \in 1 .. Len(hashing) : Hashed(i)

PreviewSpec == PreviewInit /\ [][PreviewNext]_previewVars

\* Timers fire, processes that are killed die, messages and hashes arrive.
FairPreviewSpec ==
    /\ PreviewSpec
    /\ WF_previewVars(Takes) /\ WF_previewVars(Reaped) /\ WF_previewVars(Stopped) /\ WF_previewVars(Receives)
    /\ \A o \in {"queue", "auto"} : WF_previewVars(IsReady(o) \/ TimesOut(o)) /\ WF_previewVars(FailedIsGone(o))
    /\ \A c \in Servers : WF_previewVars(c \in DOMAIN servers /\ Ends(c))
    /\ WF_previewVars(hashing # <<>> /\ Hashed(1))

-----------------------------------------------------------------------------
(* Properties *)

\* A dev server that nobody told to end is the one the manager tracks, whatever
\* commands, crashes, restarts and timeouts overlapped: none is left behind.
NoServerIsLeftBehind ==
    \A c \in DOMAIN servers :
        Alive(c) /\ ~servers[c].told => manager.state # "idle" /\ manager.child = c

\* When all is done and received, a URL that is served is that of the app that
\* runs, and shows its page as soon as the app listens, unless the hash of a
\* token held a preview_ready up behind a later message (revokePreview,
\* proxyPreviewRequest).
Quiet == toSandbox = <<>> /\ toObject = <<>> /\ hashing = <<>> /\ \A o \in DOMAIN ops : ops[o] = NoOp
ActivePreviewRuns ==
    Quiet /\ ~overtaken /\ Proxied # "not active"
      => /\ manager.state = "running" /\ manager.app = active
         /\ Serves(manager.child) => Proxied = "page"

\* A preview that is shown as starting, which disables its toggle, comes to be
\* ready, failed or stopped.
StartingEnds == shown = "starting" ~> shown # "starting"
=============================================================================
