---------------------------- MODULE SourceProfiles ----------------------------
(***************************************************************************)
(* The sources that the extension remembers: attaching and removing one is *)
(* a request to the daemon and then a change of two stores of VS Code, the *)
(* list of profiles (globalState) and the secrets; after a restart of the  *)
(* daemon the profiles are replayed into it.                               *)
(*                                                                         *)
(* A step is what the extension does between two awaits, what the daemon   *)
(* does for a request, or what VS Code does for a store.  An attachment is *)
(* [details, secret]: the profile keeps the details and whether there is a *)
(* secret, which is kept apart; the daemon is given both.                  *)
(***************************************************************************)
EXTENDS Naturals, FiniteSets

CONSTANTS
  Names,        \* names of sources
  Attachments,  \* what may be attached under each name
  Commands,     \* commands that may be under way at the same time
  MaxCalls,     \* bound: commands
  MaxRuns,      \* bound: starts of the daemon
  None

ASSUME BoundsAssumption == MaxCalls \in Nat /\ MaxRuns \in Nat

Attached == UNION {Attachments[n] : n \in Names}

ASSUME AttachmentsAssumption ==
  \A a \in Attached : a = [details |-> a.details, secret |-> a.secret]

Details == {a.details : a \in Attached}

Secrets == {a.secret : a \in Attached} \cup {None}

\* The list of profiles, as a function of the name; a call of a command is at one
\* of the steps.
Lists == [Names -> [details : Details, keyed : BOOLEAN] \cup {None}]

Steps == {"request", "answered", "secret", "save", "flush"}

Call ==
  [op : {"attach", "remove"}, name : Names, attachment : Attached \cup {None},
   step : Steps, read : Lists \cup {None}, retry : BOOLEAN]

ASSUME NoneAssumption ==
  None \notin Attached \cup [details : Details, keyed : BOOLEAN] \cup Call

VARIABLES
  profiles,      \* globalState, as the extension reads it
  disk,          \* external: globalState, as it will be read after a reload
  secrets,       \* external: the secret store
  replayErrors,  \* SourceManager.replayErrors
  daemon,        \* external: the sources of the daemon in use
  run,           \* how many daemons there were
  starting,      \* how many starts of a daemon are not followed by a replay yet
  active,        \* whether activate() has come to the commands
  calls,         \* the commands under way
  replays,       \* the profiles that are being replayed
  made,          \* history: how many commands there were
  upset          \* history: names of which a command failed or was cut off halfway,
                 \* that were dealt with twice at the same time, or of which a
                 \* change was overwritten

stores == <<profiles, disk, secrets>>
vars == <<stores, replayErrors, daemon, run, starting, active, calls, replays, made, upset>>

Profile(a) == [details |-> a.details, keyed |-> a.secret # None]

\* The extension is activated with what it stored when it was last used.
Init ==
  \E stored \in [Names -> Attached \cup {None}] :
  /\ \A n \in Names : stored[n] \in Attachments[n] \cup {None}
  /\ profiles = [n \in Names |-> IF stored[n] = None THEN None ELSE Profile(stored[n])]
  /\ disk = profiles
  /\ secrets = [n \in Names |-> IF stored[n] = None THEN None ELSE stored[n].secret]
  /\ replayErrors = {}
  /\ daemon = [n \in Names |-> None]
  /\ run = 1 /\ starting = 1 /\ active = FALSE
  /\ calls = [c \in Commands |-> None] /\ replays = {}
  /\ made = 0 /\ upset = {}

-----------------------------------------------------------------------------
(* Commands.                                                               *)

InFlight == {calls[c].name : c \in {d \in Commands : calls[d] # None}}

\* The names that are dealt with now; a replay that begins deals with all.
Busy ==
  IF starting > 0 THEN Names ELSE InFlight \cup {r.name : r \in replays}

At(c, op, step) == calls[c] # None /\ calls[c].op = op /\ calls[c].step = step

To(c, step) == calls' = [calls EXCEPT ![c].step = step]

Done(c) == calls' = [calls EXCEPT ![c] = None]

\* The command sends its request to the daemon.
Command(c, op, n, a) ==
  /\ active /\ calls[c] = None
  /\ made < MaxCalls /\ made' = made + 1
  /\ calls' = [calls EXCEPT ![c] =
       [op |-> op, name |-> n, attachment |-> a, step |-> "request",
        read |-> None, retry |-> FALSE]]
  /\ upset' = upset \cup ({n} \cap Busy)
  /\ UNCHANGED <<stores, replayErrors, daemon, run, starting, active, replays>>

Attach(c) == \E n \in Names : \E a \in Attachments[n] : Command(c, "attach", n, a)

Remove(c) ==
  \E n \in Names :
    /\ profiles[n] # None \/ daemon[n] # None
    /\ Command(c, "remove", n, None)

DaemonRegisters(c) ==
  /\ At(c, "attach", "request")
  /\ daemon' = [daemon EXCEPT ![calls[c].name] = calls[c].attachment]
  /\ To(c, "answered")
  /\ UNCHANGED <<stores, replayErrors, run, starting, replays, active, made, upset>>

DaemonRemoves(c) ==
  /\ At(c, "remove", "request")
  /\ daemon' = [daemon EXCEPT ![calls[c].name] = None]
  /\ To(c, "answered")
  /\ UNCHANGED <<stores, replayErrors, run, starting, replays, active, made, upset>>

\* The daemon cannot register the source: it is not remembered either.
RegisterFails(c) ==
  /\ At(c, "attach", "request")
  /\ Done(c)
  /\ UNCHANGED <<stores, replayErrors, daemon, run, starting, replays, active, made, upset>>

-----------------------------------------------------------------------------
(* SourceManager.addSource and removeSource.  The list of profiles that is *)
(* read before the secret store is awaited is the one that is written.     *)

Overwritten(read, n) == {m \in Names \ {n} : read[m] # profiles[m]}

\* The list that was read, with another profile of the name, or without it.
Save(c, read, profile) ==
  LET n == calls[c].name
  IN /\ profiles' = [read EXCEPT ![n] = profile]
     /\ upset' = upset \cup Overwritten(read, n)

\* The answer has arrived.  Without a secret there is nothing to await.
AddSource(c) ==
  /\ At(c, "attach", "answered")
  /\ IF calls[c].attachment.secret # None
     THEN /\ calls' = [calls EXCEPT ![c].step = "secret", ![c].read = profiles]
          /\ UNCHANGED <<profiles, upset>>
     ELSE Save(c, profiles, Profile(calls[c].attachment)) /\ To(c, "flush")
  /\ UNCHANGED <<disk, secrets, replayErrors, daemon, run, starting, replays, active, made>>

SecretStored(c) ==
  /\ At(c, "attach", "secret")
  /\ secrets' = [secrets EXCEPT ![calls[c].name] = calls[c].attachment.secret]
  /\ To(c, "save")
  /\ UNCHANGED <<profiles, disk, replayErrors, daemon, run, starting, replays, active, made, upset>>

\* A faulty form of SaveProfile.
SaveUnawaited(c) ==
  /\ At(c, "attach", "save")
  /\ Save(c, calls[c].read, Profile(calls[c].attachment)) /\ Done(c)
  /\ UNCHANGED <<disk, secrets, replayErrors, daemon, run, starting, replays, active, made>>

SaveProfile(c) ==
  /\ At(c, "attach", "save")
  /\ Save(c, calls[c].read, Profile(calls[c].attachment)) /\ To(c, "flush")
  /\ UNCHANGED <<disk, secrets, replayErrors, daemon, run, starting, replays, active, made>>

\* Whether the daemon removed the source or did not know it, or, the second time,
\* refused: the profile goes, and its secret before it.
RemoveSource(c, retry) ==
  LET n == calls[c].name
  IN /\ IF profiles[n] # None /\ profiles[n].keyed
        THEN /\ calls' = [calls EXCEPT ![c].step = "secret", ![c].read = profiles,
                                       ![c].retry = retry]
             /\ UNCHANGED profiles
        ELSE /\ profiles' = [profiles EXCEPT ![n] = None]
             /\ calls' = [calls EXCEPT ![c].step = "flush", ![c].retry = retry]
     /\ UNCHANGED <<disk, secrets, replayErrors, daemon, run, starting, replays, active, made>>

RemoveAnswered(c) ==
  /\ At(c, "remove", "answered")
  /\ RemoveSource(c, FALSE) /\ UNCHANGED upset

RemoveFails(c) ==
  /\ At(c, "remove", "request")
  /\ RemoveSource(c, TRUE) /\ upset' = upset \cup {calls[c].name}

SecretDeleted(c) ==
  /\ At(c, "remove", "secret")
  /\ secrets' = [secrets EXCEPT ![calls[c].name] = None]
  /\ To(c, "save")
  /\ UNCHANGED <<profiles, disk, replayErrors, daemon, run, starting, replays, active, made, upset>>

ForgetProfile(c) ==
  /\ At(c, "remove", "save")
  /\ Save(c, calls[c].read, None) /\ To(c, "flush")
  /\ UNCHANGED <<disk, secrets, replayErrors, daemon, run, starting, replays, active, made>>

\* The secret store fails: a removal is tried once more, from the start.
SecretFails(c) ==
  /\ calls[c] # None /\ calls[c].step = "secret"
  /\ IF calls[c].op = "remove" /\ ~calls[c].retry
     THEN RemoveSource(c, TRUE)
     ELSE /\ Done(c)
          /\ UNCHANGED <<stores, replayErrors, daemon, run, starting, replays, active, made>>
  /\ upset' = upset \cup {calls[c].name}

\* globalState.update has written the list.
Flushed(c) ==
  /\ calls[c] # None /\ calls[c].step = "flush"
  /\ disk' = profiles
  /\ replayErrors' = IF calls[c].op = "remove" THEN replayErrors \ {calls[c].name}
                     ELSE replayErrors
  /\ Done(c)
  /\ UNCHANGED <<profiles, secrets, daemon, run, starting, replays, active, made, upset>>

-----------------------------------------------------------------------------
(* Restarts and SourceManager.replaySources.                               *)

NewDaemon ==
  /\ run < MaxRuns /\ run' = run + 1
  /\ daemon' = [n \in Names |-> None]

\* The settings have changed: the daemon is stopped and another one started.  What
\* waits for an answer of the old one waits for ever.
Restart ==
  /\ active /\ UNCHANGED active
  /\ NewDaemon /\ starting' = starting + 1
  /\ calls' = [c \in Commands |->
       IF calls[c] # None /\ calls[c].step \in {"request", "answered"} THEN None ELSE calls[c]]
  /\ replays' = {r \in replays : r.step = "secret"}
  /\ upset' = upset \cup InFlight \cup {r.name : r \in replays}
  /\ UNCHANGED <<stores, replayErrors, made>>

\* VS Code exits, and is started again with what is on disk.
Reload ==
  /\ NewDaemon /\ starting' = 1 /\ active' = FALSE
  /\ profiles' = disk /\ replayErrors' = {}
  /\ calls' = [c \in Commands |-> None] /\ replays' = {}
  /\ upset' = upset \cup InFlight
  /\ UNCHANGED <<disk, secrets, made>>

Replay(n, step) ==
  [name |-> n, details |-> profiles[n].details, keyed |-> profiles[n].keyed, step |-> step,
   secret |-> None, of |-> <<run, starting>>]

\* The daemon was started: all profiles are replayed at once.
BeginReplay ==
  /\ starting > 0 /\ starting' = starting - 1
  /\ replays' = replays \cup
       {Replay(n, IF profiles[n].keyed THEN "secret" ELSE "request") :
          n \in {m \in Names : profiles[m] # None}}
  /\ UNCHANGED <<stores, replayErrors, daemon, run, calls, active, made, upset>>

Step(r, to) == replays' = (replays \ {r}) \cup to

\* The secret is read, and the request sent to the daemon in use by now.
ReplaySecret(r) ==
  /\ r.step = "secret"
  /\ Step(r, {[r EXCEPT !.step = "request", !.secret = secrets[r.name]]})
  /\ UNCHANGED <<stores, replayErrors, daemon, run, starting, calls, active, made, upset>>

\* No database is registered without its connection string.
ReplayRegisters(r) ==
  /\ r.step = "request"
  /\ r.keyed => r.secret # None
  /\ daemon' = [daemon EXCEPT ![r.name] = [details |-> r.details, secret |-> r.secret]]
  /\ Step(r, {[r EXCEPT !.step = "answered"]})
  /\ UNCHANGED <<stores, replayErrors, run, starting, calls, active, made, upset>>

ReplayAnswered(r) ==
  /\ r.step = "answered"
  /\ replayErrors' = replayErrors \ {r.name}
  /\ Step(r, {})
  /\ UNCHANGED <<stores, daemon, run, starting, calls, active, made, upset>>

\* A faulty form of ReplayFails.
ReplayFailsSilently(r) ==
  /\ r.step \in {"secret", "request"}
  /\ Step(r, {})
  /\ UNCHANGED <<stores, replayErrors, daemon, run, starting, calls, active, made, upset>>

\* The secret store or the daemon fails.
ReplayFails(r) ==
  /\ r.step \in {"secret", "request"}
  /\ replayErrors' = replayErrors \cup {r.name}
  /\ Step(r, {})
  /\ UNCHANGED <<stores, daemon, run, starting, calls, active, made, upset>>

\* The replay of activate() has ended: the commands are there.
Activated ==
  /\ ~active /\ active' = TRUE
  /\ starting = 0 /\ replays = {}
  /\ UNCHANGED <<stores, replayErrors, daemon, run, starting, calls, replays, made, upset>>

Next ==
  \/ \E c \in Commands :
       \/ Attach(c) \/ Remove(c)
       \/ DaemonRegisters(c) \/ DaemonRemoves(c) \/ RegisterFails(c)
       \/ AddSource(c) \/ SecretStored(c) \/ SaveProfile(c)
       \/ RemoveAnswered(c) \/ RemoveFails(c) \/ SecretDeleted(c) \/ ForgetProfile(c)
       \/ SecretFails(c) \/ Flushed(c)
  \/ Restart \/ Reload \/ BeginReplay \/ Activated
  \/ \E r \in replays :
       ReplaySecret(r) \/ ReplayRegisters(r) \/ ReplayAnswered(r) \/ ReplayFails(r)

Spec == Init /\ [][Next]_vars

-----------------------------------------------------------------------------
(* Properties.                                                             *)

\* What the stores say of a name: the details and the secret of one attachment.
Stored(n) ==
  IF profiles[n] = None THEN None
  ELSE [details |-> profiles[n].details,
        secret |-> IF profiles[n].keyed THEN secrets[n] ELSE None]

\* Whatever is done with other names meanwhile and however often VS Code or the
\* daemon is restarted, the daemon has, under a name that nothing is being done
\* with, what the two stores say of it together, or nothing after a replay that
\* failed; unless a command about the name failed or was cut off halfway, the name
\* was dealt with twice at a time, or a list that another command had read before
\* was written over its change (sourceManager.ts:42-140, extension.ts:420-760).
ProfilesAgree ==
  \A n \in Names \ (Busy \cup upset) :
    daemon[n] # Stored(n) => daemon[n] = None /\ n \in replayErrors

\* A reload finds every profile that a command has reported as attached, and its
\* secret, with the same excuses: nothing of a finished command is lost with the
\* process (sourceManager.ts:42-81: the profile is saved after its secret).
FinishedIsDurable ==
  \A n \in Names \ (Busy \cup upset) :
    /\ disk[n] = profiles[n]
    /\ disk[n] # None /\ disk[n].keyed => secrets[n] # None
=============================================================================
