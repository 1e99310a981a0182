------------------------- MODULE SourceProfilesProofs -------------------------
(***************************************************************************)
(* For every set of names and of attachments and any number of commands,   *)
(* restarts and reloads: the daemon agrees with the two stores about every *)
(* name that is not excused, and the stores are on disk.                   *)
(*                                                                         *)
(* The invariant speaks of one name.  Where nothing is under way about it, *)
(* it is settled, and the replays of it carry what the stores say; a       *)
(* command about it is alone, and its step says how far the daemon and the *)
(* stores have come.  What is done with other names leaves this alone,     *)
(* unless it overwrites the name's profile: then the name is excused.      *)
(***************************************************************************)
EXTENDS SourceProfiles, TLAPS

Source == [details : Details, secret : Secrets]

ReplayType ==
  [name : Names, details : Details, keyed : BOOLEAN, step : {"secret", "request", "answered"},
   secret : Secrets, of : Nat \X Nat]

\* What a command holds at the step it is at.
Held(c) ==
  calls[c] # None =>
    /\ calls[c].op = "attach" => calls[c].attachment \in Attached
    /\ calls[c].op = "remove" => calls[c].attachment = None
    /\ calls[c].step \in {"secret", "save"} => calls[c].read \in Lists

TypeOK ==
  /\ profiles \in Lists /\ disk \in Lists
  /\ secrets \in [Names -> Secrets]
  /\ daemon \in [Names -> Source \cup {None}]
  /\ calls \in [Commands -> Call \cup {None}]
  /\ \A c \in Commands : Held(c)
  /\ replays \subseteq ReplayType
  /\ replayErrors \subseteq Names /\ upset \subseteq Names
  /\ run \in Nat /\ starting \in Nat

-----------------------------------------------------------------------------
(* One name.                                                               *)

About(c, n) == calls[c] # None /\ calls[c].name = n

\* The step comes after the request.
Beyond(c) == calls[c].step # "request"

\* A replay carries what the stores say.
Faithful(r) ==
  LET n == r.name
  IN /\ profiles[n] # None
     /\ r.details = profiles[n].details /\ r.keyed = profiles[n].keyed
     /\ IF r.step = "secret" THEN r.keyed
        ELSE r.secret = (IF r.keyed THEN secrets[n] ELSE None)
     /\ r.step = "answered" => daemon[n] = Stored(n)

Replayed(n) == \E r \in replays : r.name = n

Settled(n) ==
  /\ disk[n] = profiles[n]
  /\ profiles[n] # None /\ profiles[n].keyed => secrets[n] # None
  /\ daemon[n] \in {None, Stored(n)}
  /\ \A r \in replays : r.name = n => Faithful(r)
  /\ daemon[n] # Stored(n) => starting > 0 \/ Replayed(n) \/ n \in replayErrors

Alone(c, n) ==
  /\ starting = 0 /\ ~Replayed(n)
  /\ \A d \in Commands \ {c} : ~About(d, n)

Attaching(c, n) ==
  LET a == calls[c].attachment
  IN /\ daemon[n] = a
     /\ calls[c].step \in {"secret", "save"} => a.secret # None
     /\ calls[c].step = "save" => secrets[n] = a.secret
     /\ calls[c].step = "flush" =>
          /\ profiles[n] = Profile(a)
          /\ a.secret # None => secrets[n] = a.secret

Removing(c, n) ==
  /\ daemon[n] = None
  /\ calls[c].step = "flush" => profiles[n] = None

Underway(c, n) ==
  /\ ~Beyond(c) => Settled(n)
  /\ Beyond(c) /\ calls[c].op = "attach" => Attaching(c, n)
  /\ Beyond(c) /\ calls[c].op = "remove" => Removing(c, n)

NameInv(n) ==
  /\ (\A c \in Commands : ~About(c, n)) => Settled(n)
  /\ \A c \in Commands : About(c, n) => Alone(c, n) /\ Underway(c, n)

IInv == TypeOK /\ \A n \in Names \ upset : NameInv(n)

-----------------------------------------------------------------------------
(* Types.                                                                  *)

LEMMA AttachmentFields ==
  ASSUME NEW a \in Attached
  PROVE  /\ a \in Source /\ a # None
         /\ Profile(a) \in [details : Details, keyed : BOOLEAN]
         /\ Profile(a) # None
<1>1. a.details \in Details /\ a.secret \in Secrets
  BY DEF Details, Secrets
<1>2. a = [details |-> a.details, secret |-> a.secret]
  BY AttachmentsAssumption
<1>3. a \in Source
  BY <1>1, <1>2 DEF Source
<1>4. a # None
  BY NoneAssumption
<1>5. Profile(a) \in [details : Details, keyed : BOOLEAN]
  BY <1>1 DEF Profile
<1>6. Profile(a) # None
  BY <1>5, NoneAssumption
<1>. QED
  BY <1>3, <1>4, <1>5, <1>6

LEMMA ProfileFields ==
  ASSUME TypeOK, NEW n \in Names, profiles[n] # None
  PROVE  /\ profiles[n] \in [details : Details, keyed : BOOLEAN]
         /\ profiles[n].details \in Details /\ profiles[n].keyed \in BOOLEAN
BY DEF TypeOK, Lists

LEMMA InitType == Init => TypeOK
<1>. SUFFICES ASSUME Init PROVE TypeOK
  OBVIOUS
<1>1. PICK stored \in [Names -> Attached \cup {None}] :
        /\ profiles = [n \in Names |-> IF stored[n] = None THEN None ELSE Profile(stored[n])]
        /\ secrets = [n \in Names |-> IF stored[n] = None THEN None ELSE stored[n].secret]
  BY DEF Init
<1>2. \A n \in Names : stored[n] # None => stored[n] \in Attached
  BY <1>1
<1>3. profiles \in Lists
  BY <1>1, <1>2, AttachmentFields DEF Lists
<1>4. secrets \in [Names -> Secrets]
  BY <1>1, <1>2 DEF Secrets
<1>5. \A c \in Commands : Held(c)
  BY DEF Init, Held
<1>. QED
  BY <1>3, <1>4, <1>5 DEF Init, TypeOK

LEMMA CallType ==
  ASSUME TypeOK, NEW c \in Commands, calls[c] # None
  PROVE  /\ calls[c] \in Call /\ calls[c].name \in Names /\ Held(c)
         /\ \A s \in Steps : [calls[c] EXCEPT !.step = s] \in Call
         /\ \A s \in Steps, l \in Lists, b \in BOOLEAN :
              /\ [calls[c] EXCEPT !.step = s, !.read = l] \in Call
              /\ [calls[c] EXCEPT !.step = s, !.read = l, !.retry = b] \in Call
         /\ \A s \in Steps, b \in BOOLEAN :
              [calls[c] EXCEPT !.step = s, !.retry = b] \in Call
BY DEF TypeOK, Call

\* The type of a list into which a profile is put, or out of which it is taken.
LEMMA ListsWith ==
  ASSUME NEW l \in Lists, NEW n \in Names
  PROVE  /\ [l EXCEPT ![n] = None] \in Lists
         /\ \A a \in Attached : [l EXCEPT ![n] = Profile(a)] \in Lists
BY AttachmentFields DEF Lists

\* A call goes to another step without taking anything with it.
LEMMA ToType ==
  ASSUME TypeOK, NEW c \in Commands, calls[c] # None, NEW s \in Steps, To(c, s),
         s \in {"secret", "save"} => calls[c].read \in Lists
  PROVE  /\ calls' \in [Commands -> Call \cup {None}]
         /\ \A d \in Commands : Held(d)'
         /\ \A d \in Commands \ {c} : calls'[d] = calls[d]
         /\ calls'[c] = [calls[c] EXCEPT !.step = s] /\ calls'[c] # None
<1>1. calls'[c] = [calls[c] EXCEPT !.step = s] /\ calls'[c] \in Call
  BY CallType DEF TypeOK, To
<1>2. calls'[c] # None
  BY <1>1, NoneAssumption
<1>3. \A d \in Commands \ {c} : calls'[d] = calls[d]
  BY DEF To, TypeOK
<1>4. calls' \in [Commands -> Call \cup {None}]
  BY <1>1 DEF To, TypeOK
<1>5. /\ calls'[c].op = calls[c].op /\ calls'[c].attachment = calls[c].attachment
      /\ calls'[c].read = calls[c].read /\ calls'[c].step = s
  <2>1. calls[c] \in Call
    BY CallType
  <2>. QED
    BY <1>1, <2>1 DEF Call
<1>7. Held(c)'
  <2>1. Held(c)
    BY CallType
  <2>. QED
    BY <1>5, <2>1 DEF Held
<1>6. \A d \in Commands \ {c} : Held(d)'
  BY <1>3 DEF Held, TypeOK
<1>. QED
  BY <1>1, <1>2, <1>3, <1>4, <1>7, <1>6

LEMMA DoneType ==
  ASSUME TypeOK, NEW c \in Commands, Done(c)
  PROVE  /\ calls' \in [Commands -> Call \cup {None}]
         /\ \A d \in Commands : Held(d)'
         /\ \A d \in Commands \ {c} : calls'[d] = calls[d]
         /\ calls'[c] = None
BY DEF TypeOK, Done, Held

\* The profiles are read, or put back with or without one of the name.
LEMMA SaveType ==
  ASSUME TypeOK, NEW c \in Commands, calls[c] # None, NEW l \in Lists, NEW p, Save(c, l, p),
         p = None \/ \E a \in Attached : p = Profile(a)
  PROVE  /\ profiles' \in Lists /\ upset' \subseteq Names /\ upset \subseteq upset'
         /\ profiles'[calls[c].name] = p
         /\ \A n \in Names \ (upset' \cup {calls[c].name}) : profiles'[n] = profiles[n]
<1>1. calls[c].name \in Names
  BY CallType
<1>. QED
  BY <1>1, ListsWith DEF Save, Overwritten, TypeOK, Lists

LEMMA RemoveSourceType ==
  ASSUME TypeOK, NEW c \in Commands, calls[c] # None, NEW b \in BOOLEAN, RemoveSource(c, b),
         calls[c].op = "remove"
  PROVE  /\ calls' \in [Commands -> Call \cup {None}]
         /\ \A d \in Commands : Held(d)'
         /\ \A d \in Commands \ {c} : calls'[d] = calls[d]
         /\ calls'[c] # None /\ calls'[c].name = calls[c].name /\ calls'[c].op = "remove"
         /\ calls'[c].step \in {"secret", "flush"}
         /\ calls'[c].step = "flush" => profiles'[calls[c].name] = None
         /\ profiles' \in Lists
         /\ \A n \in Names \ {calls[c].name} : profiles'[n] = profiles[n]
<1>. DEFINE n == calls[c].name
<1>0. n \in Names /\ profiles \in Lists /\ calls[c] \in Call /\ Held(c)
  BY CallType DEF TypeOK
<1>1. CASE profiles[n] # None /\ profiles[n].keyed
  <2>1. /\ calls' = [calls EXCEPT ![c].step = "secret", ![c].read = profiles, ![c].retry = b]
        /\ profiles' = profiles
    BY <1>1 DEF RemoveSource
  <2>2. calls'[c] = [calls[c] EXCEPT !.step = "secret", !.read = profiles, !.retry = b]
    BY <2>1 DEF TypeOK
  <2>3. calls'[c] \in Call /\ calls'[c].step = "secret" /\ calls'[c].read = profiles
        /\ calls'[c].name = n /\ calls'[c].op = "remove"
        /\ calls'[c].attachment = calls[c].attachment
    <3>1. calls'[c] \in Call
      BY <2>2, <1>0 DEF Call, Steps
    <3>. QED
      BY <2>2, <3>1, <1>0 DEF Call
  <2>4. calls'[c] # None
    BY <2>3, NoneAssumption
  <2>5. \A d \in Commands \ {c} : calls'[d] = calls[d]
    BY <2>1 DEF TypeOK
  <2>6. calls' \in [Commands -> Call \cup {None}]
    BY <2>1, <2>3 DEF TypeOK
  <2>7. \A d \in Commands : Held(d)'
    BY <2>3, <2>5, <1>0 DEF Held, TypeOK
  <2>. QED
    BY <2>1, <2>3, <2>4, <2>5, <2>6, <2>7, <1>0
<1>2. CASE ~(profiles[n] # None /\ profiles[n].keyed)
  <2>1. /\ profiles' = [profiles EXCEPT ![n] = None]
        /\ calls' = [calls EXCEPT ![c].step = "flush", ![c].retry = b]
    BY <1>2 DEF RemoveSource
  <2>2. calls'[c] = [calls[c] EXCEPT !.step = "flush", !.retry = b]
    BY <2>1 DEF TypeOK
  <2>3. calls'[c] \in Call /\ calls'[c].step = "flush"
        /\ calls'[c].name = n /\ calls'[c].op = "remove"
        /\ calls'[c].attachment = calls[c].attachment
    <3>1. calls'[c] \in Call
      BY <2>2, <1>0, CallType DEF Steps
    <3>. QED
      BY <2>2, <3>1, <1>0 DEF Call
  <2>4. calls'[c] # None
    BY <2>3, NoneAssumption
  <2>5. \A d \in Commands \ {c} : calls'[d] = calls[d]
    BY <2>1 DEF TypeOK
  <2>6. calls' \in [Commands -> Call \cup {None}]
    BY <2>1, <2>3 DEF TypeOK
  <2>7. \A d \in Commands : Held(d)'
    BY <2>3, <2>5, <1>0 DEF Held, TypeOK
  <2>8. profiles' \in Lists /\ profiles'[n] = None
    BY <2>1, <1>0, ListsWith DEF Lists
  <2>9. \A m \in Names \ {n} : profiles'[m] = profiles[m]
    BY <2>1, <1>0 DEF Lists
  <2>. QED
    BY <2>3, <2>4, <2>5, <2>6, <2>7, <2>8, <2>9
<1>. QED
  BY <1>1, <1>2

LEMMA BusyNames == ASSUME TypeOK PROVE Busy \subseteq Names /\ InFlight \subseteq Names
<1>1. InFlight \subseteq Names
  BY CallType DEF InFlight
<1>2. {r.name : r \in replays} \subseteq Names
  BY DEF TypeOK, ReplayType
<1>. QED
  BY <1>1, <1>2 DEF Busy

LEMMA CommandType ==
  ASSUME TypeOK, NEW c \in Commands, NEW n \in Names,
         NEW op, NEW a, Command(c, op, n, a),
         \/ op = "attach" /\ a \in Attached
         \/ op = "remove" /\ a = None
  PROVE  /\ TypeOK'
         /\ calls[c] = None /\ calls'[c] # None
         /\ calls'[c].name = n /\ calls'[c].op = op /\ calls'[c].step = "request"
         /\ \A d \in Commands \ {c} : calls'[d] = calls[d]
<1>. DEFINE new == [op |-> op, name |-> n, attachment |-> a, step |-> "request",
                    read |-> None, retry |-> FALSE]
<1>1. new \in Call /\ new # None
  <2>1. new \in Call
    BY DEF Call, Steps
  <2>. QED
    BY <2>1, NoneAssumption
<1>2. calls[c] = None /\ calls' = [calls EXCEPT ![c] = new]
  BY DEF Command
<1>3. calls'[c] = new /\ \A d \in Commands \ {c} : calls'[d] = calls[d]
  BY <1>2 DEF TypeOK
<1>4. calls' \in [Commands -> Call \cup {None}]
  BY <1>1, <1>2 DEF TypeOK
<1>5. \A d \in Commands : Held(d)'
  BY <1>3 DEF Held, TypeOK
<1>6. upset' \subseteq Names
  BY DEF Command, TypeOK
<1>7. TypeOK'
  BY <1>4, <1>5, <1>6 DEF Command, stores, TypeOK
<1>. QED
  BY <1>1, <1>2, <1>3, <1>7

LEMMA RequestType ==
  ASSUME TypeOK, NEW c \in Commands,
         DaemonRegisters(c) \/ DaemonRemoves(c) \/ RegisterFails(c)
  PROVE  TypeOK'
<1>1. calls[c] # None /\ calls[c].name \in Names
  BY CallType DEF DaemonRegisters, DaemonRemoves, RegisterFails, At
<1>2. /\ calls' \in [Commands -> Call \cup {None}]
      /\ \A d \in Commands : Held(d)'
  BY <1>1, ToType, DoneType DEF DaemonRegisters, DaemonRemoves, RegisterFails, Steps
<1>3. daemon' \in [Names -> Source \cup {None}]
  <2>1. CASE DaemonRegisters(c)
    <3>1. calls[c].attachment \in Source
      BY <2>1, <1>1, CallType, AttachmentFields DEF DaemonRegisters, At, Held
    <3>. QED
      BY <2>1, <3>1 DEF DaemonRegisters, TypeOK
  <2>. QED
    BY <2>1 DEF DaemonRemoves, RegisterFails, TypeOK
<1>. QED
  BY <1>2, <1>3 DEF TypeOK, DaemonRegisters, DaemonRemoves, RegisterFails, stores

LEMMA AddSourceType ==
  ASSUME TypeOK, NEW c \in Commands, AddSource(c)
  PROVE  TypeOK' /\ upset \subseteq upset'
<1>. DEFINE a == calls[c].attachment
<1>1. calls[c] # None /\ calls[c] \in Call /\ a \in Attached /\ profiles \in Lists
  BY CallType DEF AddSource, At, Held, TypeOK
<1>2. CASE a.secret # None
  <2>1. /\ calls' = [calls EXCEPT ![c].step = "secret", ![c].read = profiles]
        /\ UNCHANGED <<profiles, upset>>
    BY <1>2 DEF AddSource
  <2>2. calls'[c] = [calls[c] EXCEPT !.step = "secret", !.read = profiles]
    BY <2>1 DEF TypeOK
  <2>3. calls'[c] \in Call
    BY <2>2, <1>1 DEF Call, Steps
  <2>4. /\ calls'[c].op = calls[c].op /\ calls'[c].attachment = a
        /\ calls'[c].read = profiles
    BY <2>2, <2>3, <1>1 DEF Call
  <2>5. \A d \in Commands \ {c} : calls'[d] = calls[d]
    BY <2>1 DEF TypeOK
  <2>6. calls' \in [Commands -> Call \cup {None}]
    BY <2>1, <2>3 DEF TypeOK
  <2>7. \A d \in Commands : Held(d)'
    BY <2>4, <2>5, <1>1, CallType DEF Held, TypeOK
  <2>. QED
    BY <2>1, <2>6, <2>7 DEF AddSource, TypeOK
<1>3. CASE a.secret = None
  <2>1. Save(c, profiles, Profile(a)) /\ To(c, "flush")
    BY <1>3 DEF AddSource
  <2>2. /\ calls' \in [Commands -> Call \cup {None}]
        /\ \A d \in Commands : Held(d)'
    BY <2>1, <1>1, ToType DEF Steps
  <2>3. profiles' \in Lists /\ upset' \subseteq Names /\ upset \subseteq upset'
    BY <2>1, <1>1, SaveType
  <2>. QED
    BY <2>2, <2>3 DEF AddSource, TypeOK
<1>. QED
  BY <1>2, <1>3

LEMMA SecretType ==
  ASSUME TypeOK, NEW c \in Commands, SecretStored(c) \/ SecretDeleted(c)
  PROVE  TypeOK'
<1>1. calls[c] # None /\ calls[c].name \in Names /\ calls[c].read \in Lists
  BY CallType DEF SecretStored, SecretDeleted, At, Held
<1>2. /\ calls' \in [Commands -> Call \cup {None}]
      /\ \A d \in Commands : Held(d)'
  BY <1>1, ToType DEF SecretStored, SecretDeleted, Steps
<1>3. secrets' \in [Names -> Secrets]
  <2>1. CASE SecretStored(c)
    <3>1. calls[c].attachment.secret \in Secrets
      BY <2>1, <1>1, CallType DEF SecretStored, At, Held, Secrets
    <3>. QED
      BY <2>1, <3>1 DEF SecretStored, TypeOK
  <2>2. CASE SecretDeleted(c)
    BY <2>2 DEF SecretDeleted, TypeOK, Secrets
  <2>. QED
    BY <2>1, <2>2
<1>. QED
  BY <1>2, <1>3 DEF TypeOK, SecretStored, SecretDeleted

LEMMA SaveStepType ==
  ASSUME TypeOK, NEW c \in Commands, SaveProfile(c) \/ ForgetProfile(c)
  PROVE  TypeOK' /\ upset \subseteq upset'
<1>1. /\ calls[c] # None /\ calls[c].read \in Lists
      /\ calls[c].op = "attach" => calls[c].attachment \in Attached
  BY CallType DEF SaveProfile, ForgetProfile, At, Held
<1>2. /\ calls' \in [Commands -> Call \cup {None}]
      /\ \A d \in Commands : Held(d)'
  BY <1>1, ToType DEF SaveProfile, ForgetProfile, Steps
<1>3. profiles' \in Lists /\ upset' \subseteq Names /\ upset \subseteq upset'
  BY <1>1, SaveType DEF SaveProfile, ForgetProfile, At
<1>. QED
  BY <1>2, <1>3 DEF TypeOK, SaveProfile, ForgetProfile

LEMMA RemoveType ==
  ASSUME TypeOK, NEW c \in Commands, RemoveAnswered(c) \/ RemoveFails(c) \/ SecretFails(c)
  PROVE  TypeOK'
<1>1. calls[c] # None /\ calls[c].name \in Names /\ calls[c] \in Call
  BY CallType DEF RemoveAnswered, RemoveFails, SecretFails, At
<1>2. CASE calls[c].op = "remove" /\ \E b \in BOOLEAN : RemoveSource(c, b)
  <2>1. /\ calls' \in [Commands -> Call \cup {None}]
        /\ \A d \in Commands : Held(d)'
        /\ profiles' \in Lists
    BY <1>1, <1>2, RemoveSourceType
  <2>2. upset' \subseteq Names
    BY <1>1 DEF RemoveAnswered, RemoveFails, SecretFails, TypeOK
  <2>3. UNCHANGED <<disk, secrets, replayErrors, daemon, run, starting, replays>>
    BY <1>2 DEF RemoveSource
  <2>. QED
    BY <2>1, <2>2, <2>3 DEF TypeOK
<1>3. CASE SecretFails(c) /\ ~(calls[c].op = "remove" /\ ~calls[c].retry)
  <2>1. Done(c) /\ upset' \subseteq Names
        /\ UNCHANGED <<stores, replayErrors, daemon, run, starting, replays>>
    BY <1>1, <1>3 DEF SecretFails, TypeOK
  <2>. QED
    BY <2>1, DoneType DEF TypeOK, stores
<1>. QED
  BY <1>2, <1>3 DEF RemoveAnswered, RemoveFails, SecretFails, At

LEMMA FlushedType ==
  ASSUME TypeOK, NEW c \in Commands, Flushed(c)
  PROVE  TypeOK'
BY DoneType DEF TypeOK, Flushed

LEMMA RestartType ==
  ASSUME TypeOK, Restart \/ Reload
  PROVE  TypeOK'
<1>1. upset' \subseteq Names
  <2>1. {r.name : r \in replays} \subseteq Names
    BY DEF TypeOK, ReplayType
  <2>. QED
    BY <2>1, BusyNames DEF Restart, Reload, TypeOK
<1>2. calls' \in [Commands -> Call \cup {None}] /\ \A d \in Commands : Held(d)'
  <2>1. \A d \in Commands : calls'[d] \in {None, calls[d]}
    BY DEF Restart, Reload
  <2>2. calls' = [d \in Commands |-> calls'[d]]
    BY DEF Restart, Reload
  <2>3. calls' \in [Commands -> Call \cup {None}]
    BY <2>1, <2>2 DEF TypeOK
  <2>. QED
    BY <2>1, <2>3 DEF TypeOK, Held
<1>3. replays' \subseteq replays
  BY DEF Restart, Reload
<1>4. daemon' \in [Names -> Source \cup {None}] /\ run' \in Nat /\ starting' \in Nat
  BY DEF Restart, Reload, NewDaemon, TypeOK
<1>5. profiles' \in Lists /\ disk' \in Lists /\ replayErrors' \subseteq Names
      /\ secrets' = secrets
  BY DEF Restart, Reload, TypeOK, stores
<1>. QED
  BY <1>1, <1>2, <1>3, <1>4, <1>5 DEF TypeOK

LEMMA ReplayRecord ==
  ASSUME TypeOK, NEW n \in Names, profiles[n] # None, NEW s \in {"secret", "request"}
  PROVE  Replay(n, s) \in ReplayType
BY ProfileFields DEF Replay, ReplayType, TypeOK, Secrets

LEMMA ReplayStepType ==
  ASSUME TypeOK,
         \/ BeginReplay
         \/ \E r \in replays :
              ReplaySecret(r) \/ ReplayRegisters(r) \/ ReplayAnswered(r) \/ ReplayFails(r)
  PROVE  TypeOK'
<1>1. CASE BeginReplay
  <2>1. replays' \subseteq ReplayType
    <3>1. {Replay(n, IF profiles[n].keyed THEN "secret" ELSE "request") :
             n \in {m \in Names : profiles[m] # None}} \subseteq ReplayType
      BY ReplayRecord
    <3>. QED
      BY <1>1, <3>1 DEF BeginReplay, TypeOK
  <2>2. starting' \in Nat
    BY <1>1 DEF BeginReplay, TypeOK
  <2>3. \A d \in Commands : Held(d)'
    BY <1>1 DEF BeginReplay, TypeOK, Held
  <2>. QED
    BY <1>1, <2>1, <2>2, <2>3 DEF BeginReplay, TypeOK, stores
<1>2. ASSUME NEW r \in replays,
             ReplaySecret(r) \/ ReplayRegisters(r) \/ ReplayAnswered(r) \/ ReplayFails(r)
      PROVE  TypeOK'
  <2>0. r \in ReplayType /\ r.name \in Names
    BY DEF TypeOK, ReplayType
  <2>1. replays' \subseteq ReplayType
    <3>1. [r EXCEPT !.step = "request", !.secret = secrets[r.name]] \in ReplayType
      BY <2>0 DEF TypeOK, ReplayType
    <3>2. [r EXCEPT !.step = "answered"] \in ReplayType
      BY <2>0 DEF ReplayType
    <3>. QED
      BY <1>2, <3>1, <3>2
         DEF ReplaySecret, ReplayRegisters, ReplayAnswered, ReplayFails, Step, TypeOK
  <2>2. daemon' \in [Names -> Source \cup {None}]
    <3>1. [details |-> r.details, secret |-> r.secret] \in Source
      BY <2>0 DEF ReplayType, Source
    <3>. QED
      BY <1>2, <3>1 DEF ReplaySecret, ReplayRegisters, ReplayAnswered, ReplayFails, TypeOK
  <2>3. replayErrors' \subseteq Names
    BY <1>2, <2>0 DEF ReplaySecret, ReplayRegisters, ReplayAnswered, ReplayFails, TypeOK
  <2>4. UNCHANGED <<stores, run, starting, calls, upset>>
    BY <1>2 DEF ReplaySecret, ReplayRegisters, ReplayAnswered, ReplayFails
  <2>5. \A d \in Commands : Held(d)'
    BY <2>4 DEF TypeOK, Held
  <2>. QED
    BY <2>1, <2>2, <2>3, <2>4, <2>5 DEF TypeOK, stores
<1>. QED
  BY <1>1, <1>2

-----------------------------------------------------------------------------
(* Steps and one name.                                                     *)

\* A step that has nothing to do with the name; a list may be written to disk.
LEMMA SparedKeeps ==
  ASSUME NEW n \in Names, NameInv(n),
         profiles'[n] = profiles[n], disk'[n] \in {disk[n], profiles[n]},
         secrets'[n] = secrets[n], daemon'[n] = daemon[n], starting' = starting,
         n \in replayErrors => n \in replayErrors',
         \A r : r.name = n => (r \in replays' <=> r \in replays),
         \A c \in Commands : About(c, n) \/ About(c, n)' => calls'[c] = calls[c]
  PROVE  NameInv(n)'
<1>1. \A c \in Commands : About(c, n)' <=> About(c, n)
  BY DEF About
<1>2. Stored(n)' = Stored(n)
  BY DEF Stored
<1>3. Replayed(n)' <=> Replayed(n)
  BY DEF Replayed
<1>4. ASSUME NEW r, r.name = n, Faithful(r) PROVE Faithful(r)'
  BY <1>4, <1>2 DEF Faithful
<1>5. Settled(n) => Settled(n)'
  BY <1>2, <1>3, <1>4 DEF Settled
<1>6. ASSUME NEW c \in Commands, About(c, n) PROVE Alone(c, n)' /\ Underway(c, n)'
  <2>1. Alone(c, n) /\ Underway(c, n)
    BY <1>6 DEF NameInv
  <2>2. Alone(c, n)'
    BY <2>1, <1>1, <1>3 DEF Alone
  <2>3. calls'[c] = calls[c]
    BY <1>6
  <2>4. Underway(c, n)'
    BY <2>1, <2>3, <1>5 DEF Underway, Beyond, Attaching, Removing, Profile
  <2>. QED
    BY <2>2, <2>4
<1>. QED
  BY <1>1, <1>5, <1>6 DEF NameInv

\* A step of the command that the name belongs to.
LEMMA OwnStep ==
  ASSUME NEW n \in Names, NameInv(n), NEW c \in Commands, About(c, n),
         \A d \in Commands \ {c} : calls'[d] = calls[d],
         UNCHANGED <<replays, starting>>,
         \/ About(c, n)' /\ Underway(c, n)'
         \/ calls'[c] = None /\ Settled(n)'
  PROVE  NameInv(n)'
<1>1. Alone(c, n) /\ \A d \in Commands \ {c} : ~About(d, n)'
  BY DEF NameInv, Alone, About
<1>2. Alone(c, n)'
  BY <1>1 DEF Alone, Replayed
<1>3. CASE About(c, n)' /\ Underway(c, n)'
  BY <1>1, <1>2, <1>3 DEF NameInv
<1>4. CASE calls'[c] = None /\ Settled(n)'
  <2>1. \A d \in Commands : ~About(d, n)'
    BY <1>1, <1>4 DEF About
  <2>. QED
    BY <1>4, <2>1 DEF NameInv
<1>. QED
  BY <1>3, <1>4

LEMMA CommandKeeps ==
  ASSUME TypeOK, NEW c \in Commands, NEW m \in Names, NEW op, NEW a, Command(c, op, m, a),
         \/ op = "attach" /\ a \in Attached
         \/ op = "remove" /\ a = None,
         NEW n \in Names \ upset', NameInv(n)
  PROVE  NameInv(n)'
<1>1. /\ calls[c] = None /\ calls'[c] # None
      /\ calls'[c].name = m /\ calls'[c].step = "request"
      /\ \A d \in Commands \ {c} : calls'[d] = calls[d]
  BY CommandType
<1>2. UNCHANGED <<stores, replayErrors, daemon, starting, replays>>
  BY DEF Command
<1>3. CASE n # m
  <2>1. \A d \in Commands : About(d, n) \/ About(d, n)' => calls'[d] = calls[d]
    BY <1>1, <1>3 DEF About
  <2>. QED
    BY <1>2, <2>1, SparedKeeps DEF stores
<1>4. CASE n = m
  <2>1. n \notin Busy
    BY <1>4 DEF Command
  <2>2. starting = 0 /\ n \notin InFlight /\ ~Replayed(n)
    BY <2>1 DEF Busy, Replayed, TypeOK
  <2>3. \A d \in Commands : ~About(d, n)
    BY <2>2 DEF InFlight, About
  <2>4. Settled(n)
    BY <2>3 DEF NameInv
  <2>5. Settled(n)'
    BY <2>4, <1>2 DEF Settled, Stored, Faithful, Replayed, stores
  <2>6. Underway(c, n)'
    BY <1>1, <2>5 DEF Underway, Beyond
  <2>7. \A d \in Commands : About(d, n)' => d = c
    BY <1>1, <2>3 DEF About
  <2>8. Alone(c, n)' /\ About(c, n)'
    BY <1>1, <1>2, <1>4, <2>2, <2>7 DEF Alone, Replayed, About
  <2>. QED
    BY <2>6, <2>7, <2>8 DEF NameInv
<1>. QED
  BY <1>3, <1>4

\* What a step does to its command: the rest of the calls, the replays and the
\* starts stay.
OwnOnly(c) ==
  /\ calls[c] # None
  /\ \A d \in Commands \ {c} : calls'[d] = calls[d]
  /\ calls'[c] = None \/ (calls'[c] # None /\ calls'[c].name = calls[c].name)
  /\ UNCHANGED <<replays, starting>>

\* A command's step leaves another name as it is.
LEMMA OtherName ==
  ASSUME NEW c \in Commands, OwnOnly(c),
         NEW n \in Names, n # calls[c].name, NameInv(n),
         profiles'[n] = profiles[n], disk'[n] \in {disk[n], profiles[n]},
         secrets'[n] = secrets[n], daemon'[n] = daemon[n],
         n \in replayErrors => n \in replayErrors'
  PROVE  NameInv(n)'
<1>1. \A d \in Commands : About(d, n) \/ About(d, n)' => calls'[d] = calls[d]
  BY DEF OwnOnly, About
<1>2. \A r : r.name = n => (r \in replays' <=> r \in replays)
  BY DEF OwnOnly
<1>. QED
  BY <1>1, <1>2, SparedKeeps DEF OwnOnly

LEMMA RequestKeeps ==
  ASSUME TypeOK, NEW c \in Commands,
         DaemonRegisters(c) \/ DaemonRemoves(c) \/ RegisterFails(c),
         NEW n \in Names, NameInv(n)
  PROVE  NameInv(n)'
<1>. DEFINE m == calls[c].name
<1>1. /\ calls[c] # None /\ m \in Names /\ calls[c].step = "request"
      /\ calls[c] \in Call /\ Held(c)
  BY CallType DEF DaemonRegisters, DaemonRemoves, RegisterFails, At
<1>2. UNCHANGED <<stores, replayErrors, starting, replays>>
  BY DEF DaemonRegisters, DaemonRemoves, RegisterFails
<1>3. CASE RegisterFails(c)
  <2>1. calls'[c] = None /\ \A d \in Commands \ {c} : calls'[d] = calls[d]
    BY <1>3, DoneType DEF RegisterFails
  <2>2. CASE n = m
    <3>1. Settled(n)
      BY <1>1, <2>2 DEF NameInv, About, Underway, Beyond
    <3>2. Settled(n)'
      BY <1>2, <1>3, <3>1 DEF Settled, Stored, Faithful, Replayed, stores, RegisterFails
    <3>. QED
      BY <1>1, <1>2, <2>1, <2>2, <3>2, OwnStep DEF About
  <2>3. CASE n # m
    BY <1>1, <1>2, <1>3, <2>1, <2>3, OtherName DEF OwnOnly, stores, RegisterFails
  <2>. QED
    BY <2>2, <2>3
<1>4. CASE DaemonRegisters(c) \/ DaemonRemoves(c)
  <2>1. /\ calls'[c] = [calls[c] EXCEPT !.step = "answered"] /\ calls'[c] # None
        /\ \A d \in Commands \ {c} : calls'[d] = calls[d]
    BY <1>1, <1>4, ToType DEF DaemonRegisters, DaemonRemoves, Steps
  <2>2. /\ calls'[c].name = m /\ calls'[c].step = "answered"
        /\ calls'[c].op = calls[c].op /\ calls'[c].attachment = calls[c].attachment
    BY <1>1, <2>1 DEF Call
  <2>3. CASE n = m
    <3>1. About(c, n) /\ About(c, n)'
      BY <1>1, <2>1, <2>2, <2>3 DEF About
    <3>2. daemon'[n] = (IF calls[c].op = "attach" THEN calls[c].attachment ELSE None)
      BY <1>1, <1>4, <2>3 DEF DaemonRegisters, DaemonRemoves, At, TypeOK
    <3>3. Underway(c, n)'
      BY <1>1, <2>2, <3>2 DEF Underway, Beyond, Attaching, Removing
    <3>. QED
      BY <1>2, <2>1, <3>1, <3>3, OwnStep
  <2>4. CASE n # m
    <3>1. daemon'[n] = daemon[n]
      BY <1>1, <1>4, <2>4 DEF DaemonRegisters, DaemonRemoves, TypeOK
    <3>. QED
      BY <1>1, <1>2, <2>1, <2>2, <2>4, <3>1, OtherName DEF OwnOnly, stores
  <2>. QED
    BY <2>3, <2>4
<1>. QED
  BY <1>3, <1>4

LEMMA AddSourceKeeps ==
  ASSUME TypeOK, NEW c \in Commands, AddSource(c), NEW n \in Names \ upset', NameInv(n)
  PROVE  NameInv(n)'
<1>. DEFINE m == calls[c].name
            a == calls[c].attachment
<1>1. /\ calls[c] # None /\ m \in Names /\ calls[c].step = "answered"
      /\ calls[c] \in Call /\ a \in Attached /\ calls[c].op = "attach" /\ profiles \in Lists
  BY CallType DEF AddSource, At, Held, TypeOK
<1>2. UNCHANGED <<disk, secrets, replayErrors, daemon, starting, replays>>
  BY DEF AddSource
<1>3. /\ calls'[c] # None /\ calls'[c].name = m /\ calls'[c].op = "attach"
      /\ calls'[c].attachment = a
      /\ \A d \in Commands \ {c} : calls'[d] = calls[d]
      /\ \/ calls'[c].step = "secret" /\ a.secret # None /\ profiles' = profiles
         \/ /\ calls'[c].step = "flush" /\ a.secret = None
            /\ profiles'[m] = Profile(a)
            /\ \A k \in Names \ (upset' \cup {m}) : profiles'[k] = profiles[k]
  <2>1. CASE a.secret # None
    <3>1. /\ calls' = [calls EXCEPT ![c].step = "secret", ![c].read = profiles]
          /\ profiles' = profiles
      BY <2>1 DEF AddSource
    <3>2. calls'[c] = [calls[c] EXCEPT !.step = "secret", !.read = profiles]
          /\ \A d \in Commands \ {c} : calls'[d] = calls[d]
      BY <3>1 DEF TypeOK
    <3>3. calls'[c] \in Call
      BY <3>2, <1>1 DEF Call, Steps
    <3>4. calls'[c] # None
      BY <3>3, NoneAssumption
    <3>5. /\ calls'[c].name = m /\ calls'[c].op = "attach"
          /\ calls'[c].attachment = a /\ calls'[c].step = "secret"
      BY <3>2, <1>1 DEF Call
    <3>. QED
      BY <2>1, <3>1, <3>2, <3>4, <3>5
  <2>2. CASE a.secret = None
    <3>1. Save(c, profiles, Profile(a)) /\ To(c, "flush")
      BY <2>2 DEF AddSource
    <3>2. /\ calls'[c] = [calls[c] EXCEPT !.step = "flush"] /\ calls'[c] # None
          /\ \A d \in Commands \ {c} : calls'[d] = calls[d]
      BY <1>1, <3>1, ToType DEF Steps
    <3>3. /\ calls'[c].name = m /\ calls'[c].op = "attach"
          /\ calls'[c].attachment = a /\ calls'[c].step = "flush"
      BY <3>2, <1>1 DEF Call
    <3>4. /\ profiles'[m] = Profile(a)
          /\ \A k \in Names \ (upset' \cup {m}) : profiles'[k] = profiles[k]
      BY <1>1, <3>1, SaveType
    <3>. QED
      BY <2>2, <3>2, <3>3, <3>4
  <2>. QED
    BY <2>1, <2>2
<1>4. CASE n = m
  <2>1. About(c, n) /\ About(c, n)'
    BY <1>1, <1>3, <1>4 DEF About
  <2>2. daemon[n] = a
    BY <1>1, <2>1 DEF NameInv, Underway, Beyond, Attaching
  <2>3. Underway(c, n)'
    BY <1>2, <1>3, <1>4, <2>2 DEF Underway, Beyond, Attaching, Profile
  <2>. QED
    BY <1>2, <1>3, <2>1, <2>3, OwnStep
<1>5. CASE n # m
  <2>1. profiles'[n] = profiles[n]
    BY <1>3, <1>5
  <2>. QED
    BY <1>1, <1>2, <1>3, <1>5, <2>1, OtherName DEF OwnOnly
<1>. QED
  BY <1>4, <1>5

\* What is known of a command whose step has only moved on.
LEMMA Moved ==
  ASSUME TypeOK, NEW c \in Commands, calls[c] # None, NEW s \in Steps, To(c, s),
         s \in {"secret", "save"} => calls[c].read \in Lists
  PROVE  /\ calls'[c] # None /\ calls'[c].name = calls[c].name /\ calls'[c].step = s
         /\ calls'[c].op = calls[c].op /\ calls'[c].attachment = calls[c].attachment
         /\ \A d \in Commands \ {c} : calls'[d] = calls[d]
<1>1. /\ calls'[c] = [calls[c] EXCEPT !.step = s] /\ calls'[c] # None
      /\ \A d \in Commands \ {c} : calls'[d] = calls[d]
  BY ToType
<1>2. calls[c] \in Call
  BY CallType
<1>. QED
  BY <1>1, <1>2 DEF Call

LEMMA SecretKeeps ==
  ASSUME TypeOK, NEW c \in Commands, SecretStored(c) \/ SecretDeleted(c),
         NEW n \in Names, NameInv(n)
  PROVE  NameInv(n)'
<1>. DEFINE m == calls[c].name
<1>1. /\ calls[c] # None /\ m \in Names /\ calls[c].step = "secret"
      /\ calls[c].read \in Lists /\ To(c, "save")
  BY CallType DEF SecretStored, SecretDeleted, At, Held
<1>2. UNCHANGED <<profiles, disk, replayErrors, daemon, starting, replays>>
  BY DEF SecretStored, SecretDeleted
<1>3. /\ calls'[c] # None /\ calls'[c].name = m /\ calls'[c].step = "save"
      /\ calls'[c].op = calls[c].op /\ calls'[c].attachment = calls[c].attachment
      /\ \A d \in Commands \ {c} : calls'[d] = calls[d]
  BY <1>1, Moved DEF Steps
<1>4. CASE n = m
  <2>1. About(c, n) /\ About(c, n)' /\ Underway(c, n)
    BY <1>1, <1>3, <1>4 DEF About, NameInv
  <2>2. calls[c].op = "attach" => secrets'[n] = calls[c].attachment.secret
    BY <1>1, <1>4 DEF SecretStored, SecretDeleted, At, TypeOK
  <2>3. Underway(c, n)'
    BY <1>1, <1>2, <1>3, <2>1, <2>2 DEF Underway, Beyond, Attaching, Removing
  <2>. QED
    BY <1>2, <1>3, <2>1, <2>3, OwnStep
<1>5. CASE n # m
  <2>1. secrets'[n] = secrets[n]
    BY <1>1, <1>5 DEF SecretStored, SecretDeleted, TypeOK
  <2>. QED
    BY <1>1, <1>2, <1>3, <1>5, <2>1, OtherName DEF OwnOnly
<1>. QED
  BY <1>4, <1>5

LEMMA SaveKeeps ==
  ASSUME TypeOK, NEW c \in Commands, SaveProfile(c) \/ ForgetProfile(c),
         NEW n \in Names \ upset', NameInv(n)
  PROVE  NameInv(n)'
<1>. DEFINE m == calls[c].name
            p == IF calls[c].op = "attach" THEN Profile(calls[c].attachment) ELSE None
<1>1. /\ calls[c] # None /\ m \in Names /\ calls[c].step = "save"
      /\ calls[c].read \in Lists /\ To(c, "flush")
      /\ calls[c].op \in {"attach", "remove"}
      /\ calls[c].op = "attach" => calls[c].attachment \in Attached
      /\ Save(c, calls[c].read, p)
  BY CallType DEF SaveProfile, ForgetProfile, At, Held
<1>2. UNCHANGED <<disk, secrets, replayErrors, daemon, starting, replays>>
  BY DEF SaveProfile, ForgetProfile
<1>3. /\ calls'[c] # None /\ calls'[c].name = m /\ calls'[c].step = "flush"
      /\ calls'[c].op = calls[c].op /\ calls'[c].attachment = calls[c].attachment
      /\ \A d \in Commands \ {c} : calls'[d] = calls[d]
  BY <1>1, Moved DEF Steps
<1>6. /\ profiles'[m] = p
       /\ \A k \in Names \ (upset' \cup {m}) : profiles'[k] = profiles[k]
  BY <1>1, SaveType
<1>4. CASE n = m
  <2>1. About(c, n) /\ About(c, n)' /\ Underway(c, n)
    BY <1>1, <1>3, <1>4 DEF About, NameInv
  <2>2. Underway(c, n)'
    BY <1>1, <1>2, <1>3, <1>6, <1>4, <2>1 DEF Underway, Beyond, Attaching, Removing, Profile
  <2>. QED
    BY <1>2, <1>3, <2>1, <2>2, OwnStep
<1>5. CASE n # m
  <2>1. profiles'[n] = profiles[n]
    BY <1>6, <1>5
  <2>. QED
    BY <1>1, <1>2, <1>3, <1>5, <2>1, OtherName DEF OwnOnly
<1>. QED
  BY <1>4, <1>5

LEMMA RemoveKeeps ==
  ASSUME TypeOK, NEW c \in Commands, RemoveAnswered(c) \/ RemoveFails(c) \/ SecretFails(c),
         NEW n \in Names \ upset', NameInv(n)
  PROVE  NameInv(n)'
<1>. DEFINE m == calls[c].name
<1>1. calls[c] # None /\ m \in Names
  BY CallType DEF RemoveAnswered, RemoveFails, SecretFails, At
<1>2. CASE calls[c].op = "remove" /\ \E b \in BOOLEAN : RemoveSource(c, b)
  <2>1. /\ \A d \in Commands \ {c} : calls'[d] = calls[d]
        /\ calls'[c] # None /\ calls'[c].name = m /\ calls'[c].op = "remove"
        /\ calls'[c].step \in {"secret", "flush"}
        /\ calls'[c].step = "flush" => profiles'[m] = None
        /\ \A k \in Names \ {m} : profiles'[k] = profiles[k]
    BY <1>1, <1>2, RemoveSourceType
  <2>2. UNCHANGED <<disk, secrets, replayErrors, daemon, starting, replays>>
    BY <1>2 DEF RemoveSource
  <2>3. CASE n = m
    <3>1. RemoveAnswered(c)
      BY <2>3 DEF RemoveFails, SecretFails
    <3>2. About(c, n) /\ About(c, n)' /\ Underway(c, n)
      BY <1>1, <2>1, <2>3 DEF About, NameInv
    <3>3. daemon[n] = None
      BY <1>2, <3>1, <3>2 DEF Underway, Beyond, Removing, RemoveAnswered, At
    <3>4. Underway(c, n)'
      BY <2>1, <2>2, <2>3, <3>3 DEF Underway, Beyond, Removing
    <3>. QED
      BY <2>1, <2>2, <3>2, <3>4, OwnStep
  <2>4. CASE n # m
    BY <1>1, <2>1, <2>2, <2>4, OtherName DEF OwnOnly
  <2>. QED
    BY <2>3, <2>4
<1>3. CASE SecretFails(c) /\ ~(calls[c].op = "remove" /\ ~calls[c].retry)
  <2>1. /\ Done(c) /\ n # m
        /\ UNCHANGED <<stores, replayErrors, daemon, starting, replays>>
    BY <1>3 DEF SecretFails
  <2>2. calls'[c] = None /\ \A d \in Commands \ {c} : calls'[d] = calls[d]
    BY <2>1, DoneType
  <2>. QED
    BY <1>1, <2>1, <2>2, OtherName DEF OwnOnly, stores
<1>. QED
  BY <1>2, <1>3 DEF RemoveAnswered, RemoveFails, SecretFails, At

LEMMA FlushedKeeps ==
  ASSUME TypeOK, NEW c \in Commands, Flushed(c), NEW n \in Names, NameInv(n)
  PROVE  NameInv(n)'
<1>. DEFINE m == calls[c].name
            a == calls[c].attachment
<1>1. /\ calls[c] # None /\ m \in Names /\ calls[c].step = "flush"
      /\ calls[c].op \in {"attach", "remove"}
      /\ calls[c].op = "attach" => a \in Attached
  BY CallType DEF Flushed, Held, Call
<1>2. /\ UNCHANGED <<profiles, secrets, daemon, starting, replays>>
      /\ disk' = profiles
      /\ n # m /\ n \in replayErrors => n \in replayErrors'
  BY DEF Flushed
<1>3. calls'[c] = None /\ \A d \in Commands \ {c} : calls'[d] = calls[d]
  BY DoneType DEF Flushed
<1>4. CASE n = m
  <2>1. About(c, n) /\ Alone(c, n) /\ Underway(c, n)
    BY <1>1, <1>4 DEF About, NameInv
  <2>2. daemon[n] = Stored(n) /\ (profiles[n] # None /\ profiles[n].keyed => secrets[n] # None)
    <3>1. CASE calls[c].op = "attach"
      <4>1. /\ daemon[n] = a /\ profiles[n] = Profile(a)
            /\ a.secret # None => secrets[n] = a.secret
        BY <1>1, <2>1, <3>1 DEF Underway, Beyond, Attaching
      <4>2. /\ profiles[n] # None /\ a = [details |-> a.details, secret |-> a.secret]
        BY <1>1, <3>1, <4>1, AttachmentFields, AttachmentsAssumption
      <4>3. profiles[n].details = a.details /\ profiles[n].keyed = (a.secret # None)
        BY <4>1 DEF Profile
      <4>. QED
        BY <4>1, <4>2, <4>3 DEF Stored
    <3>2. CASE calls[c].op = "remove"
      BY <1>1, <2>1, <3>2 DEF Underway, Beyond, Removing, Stored
    <3>. QED
      BY <1>1, <3>1, <3>2
  <2>3. ~Replayed(n)
    BY <2>1 DEF Alone
  <2>4. Settled(n)'
    BY <1>2, <2>2, <2>3 DEF Settled, Stored, Replayed
  <2>. QED
    BY <1>2, <1>3, <2>1, <2>4, OwnStep
<1>5. CASE n # m
  BY <1>1, <1>2, <1>3, <1>5, OtherName DEF OwnOnly
<1>. QED
  BY <1>4, <1>5

LEMMA RestartKeeps ==
  ASSUME TypeOK, Restart \/ Reload, NEW n \in Names \ upset', NameInv(n)
  PROVE  NameInv(n)'
<1>1. n \notin InFlight
  BY DEF Restart, Reload
<1>2. \A c \in Commands : ~About(c, n)
  BY <1>1 DEF InFlight, About
<1>3. Settled(n)
  BY <1>2 DEF NameInv
<1>4. \A c \in Commands : calls'[c] \in {None, calls[c]}
  BY DEF Restart, Reload
<1>5. \A c \in Commands : ~About(c, n)'
  BY <1>2, <1>4 DEF About
<1>6. daemon'[n] = None /\ starting' > 0
  BY DEF Restart, Reload, NewDaemon, TypeOK
<1>7. \A r \in replays' : r.name # n
  BY DEF Restart, Reload
<1>8. /\ profiles'[n] = profiles[n] /\ disk'[n] = profiles[n]
      /\ secrets' = secrets
  BY <1>3 DEF Restart, Reload, stores, Settled
<1>9. Settled(n)'
  BY <1>3, <1>6, <1>7, <1>8 DEF Settled
<1>. QED
  BY <1>5, <1>9 DEF NameInv

LEMMA BeginKeeps ==
  ASSUME TypeOK, BeginReplay, NEW n \in Names, NameInv(n)
  PROVE  NameInv(n)'
<1>. DEFINE s == IF profiles[n].keyed THEN "secret" ELSE "request"
<1>1. /\ UNCHANGED <<profiles, disk, secrets, replayErrors, daemon, calls>>
      /\ starting > 0
      /\ replays' = replays \cup
           {Replay(m, IF profiles[m].keyed THEN "secret" ELSE "request") :
              m \in {k \in Names : profiles[k] # None}}
  BY DEF BeginReplay, stores
<1>2. \A c \in Commands : ~About(c, n) /\ ~About(c, n)'
  BY <1>1 DEF NameInv, Alone, About
<1>3. Settled(n)
  BY <1>2 DEF NameInv
<1>4. Stored(n)' = Stored(n)
  BY <1>1 DEF Stored
<1>5. ASSUME NEW r \in replays', r.name = n PROVE Faithful(r)'
  <2>1. CASE r \in replays
    BY <1>1, <1>3, <1>4, <1>5, <2>1 DEF Settled, Faithful
  <2>2. CASE r \notin replays
    <3>1. PICK m \in Names : /\ profiles[m] # None
                             /\ r = Replay(m, IF profiles[m].keyed THEN "secret" ELSE "request")
      BY <1>1, <2>2
    <3>2. m = n
      BY <1>5, <3>1 DEF Replay
    <3>. QED
      BY <1>1, <3>1, <3>2, ProfileFields DEF Faithful, Replay
  <2>. QED
    BY <2>1, <2>2
<1>6. CASE profiles[n] = None
  <2>1. daemon'[n] = Stored(n)'
    BY <1>1, <1>3, <1>4, <1>6 DEF Settled, Stored
  <2>2. Settled(n)'
    BY <1>1, <1>3, <1>5, <2>1 DEF Settled
  <2>. QED
    BY <1>2, <2>2 DEF NameInv
<1>7. CASE profiles[n] # None
  <2>1. Replay(n, s) \in replays' /\ Replay(n, s).name = n
    BY <1>1, <1>7 DEF Replay
  <2>2. Replayed(n)'
    BY <2>1 DEF Replayed
  <2>3. Settled(n)'
    BY <1>1, <1>3, <1>4, <1>5, <2>2 DEF Settled
  <2>. QED
    BY <1>2, <2>3 DEF NameInv
<1>. QED
  BY <1>6, <1>7

LEMMA ReplayKeeps ==
  ASSUME TypeOK, NEW q \in replays,
         ReplaySecret(q) \/ ReplayRegisters(q) \/ ReplayAnswered(q) \/ ReplayFails(q),
         NEW n \in Names, NameInv(n)
  PROVE  NameInv(n)'
<1>next. PICK later : later = IF ReplaySecret(q)
                           THEN [q EXCEPT !.step = "request", !.secret = secrets[q.name]]
                           ELSE [q EXCEPT !.step = "answered"]
  OBVIOUS
<1>0. q \in ReplayType /\ q.name \in Names /\ later.name = q.name
  BY <1>next DEF TypeOK, ReplayType
<1>1. /\ UNCHANGED <<stores, starting, calls>>
      /\ \A r : r \in replays' => (r \in replays \/ r = later)
      /\ \A r : r # q /\ r \in replays => r \in replays'
  BY <1>next DEF ReplaySecret, ReplayRegisters, ReplayAnswered, ReplayFails, Step
<1>2. CASE n # q.name
  <2>1. daemon'[n] = daemon[n]
    BY <1>0, <1>2 DEF ReplaySecret, ReplayRegisters, ReplayAnswered, ReplayFails, TypeOK
  <2>2. n \in replayErrors => n \in replayErrors'
    BY <1>2 DEF ReplaySecret, ReplayRegisters, ReplayAnswered, ReplayFails
  <2>3. \A r : r.name = n => (r \in replays' <=> r \in replays)
    BY <1>0, <1>1, <1>2
  <2>. QED
    BY <1>1, <2>1, <2>2, <2>3, SparedKeeps DEF stores
<1>3. CASE n = q.name
  <2>1. \A c \in Commands : ~About(c, n) /\ ~About(c, n)'
    BY <1>1, <1>3 DEF NameInv, Alone, Replayed, About
  <2>2. Settled(n) /\ Faithful(q)
    BY <1>3, <2>1 DEF NameInv, Settled
  <2>3. Stored(n)' = Stored(n)
    BY <1>1 DEF Stored, stores
  <2>4. daemon'[n] = daemon[n] \/ (ReplayRegisters(q) /\ daemon'[n] = Stored(n))
    <3>1. CASE ReplayRegisters(q)
      <4>1. daemon'[n] = [details |-> q.details, secret |-> q.secret] /\ q.step # "secret"
        BY <1>0, <1>3, <3>1 DEF ReplayRegisters, TypeOK
      <4>. QED
        BY <1>3, <2>2, <3>1, <4>1 DEF Faithful, Stored
    <3>. QED
      BY <3>1 DEF ReplaySecret, ReplayAnswered, ReplayFails
  <2>5. ASSUME NEW r \in replays, r.name = n PROVE Faithful(r)'
    <3>1. Faithful(r)
      BY <2>2, <2>5 DEF Settled
    <3>. QED
      BY <1>1, <2>3, <2>4, <2>5, <3>1 DEF Faithful, stores
  <2>6. later \in replays' => Faithful(later)'
    <3>1. CASE ReplaySecret(q)
      <4>1. later = [q EXCEPT !.step = "request", !.secret = secrets[n]] /\ q.keyed
        BY <1>next, <1>3, <2>2, <3>1 DEF ReplaySecret, Faithful
      <4>2. /\ later.details = q.details /\ later.keyed = q.keyed
            /\ later.step = "request" /\ later.secret = secrets[n] /\ later.name = n
        BY <1>0, <1>3, <4>1 DEF ReplayType
      <4>. QED
        BY <1>1, <1>3, <2>2, <4>1, <4>2 DEF Faithful, stores
    <3>2. CASE ReplayRegisters(q)
      <4>1. q.step = "request" /\ ~ReplaySecret(q)
        BY <3>2 DEF ReplayRegisters, ReplaySecret
      <4>2. later = [q EXCEPT !.step = "answered"]
        BY <1>next, <4>1
      <4>3. /\ later.details = q.details /\ later.keyed = q.keyed
            /\ later.step = "answered" /\ later.secret = q.secret /\ later.name = n
        BY <1>0, <1>3, <4>2 DEF ReplayType
      <4>4. daemon'[n] = Stored(n)
        <5>1. daemon'[n] = [details |-> q.details, secret |-> q.secret]
          BY <1>0, <1>3, <3>2 DEF ReplayRegisters, TypeOK
        <5>. QED
          BY <1>3, <2>2, <4>1, <5>1 DEF Faithful, Stored
      <4>. QED
        BY <1>1, <1>3, <2>2, <2>3, <4>1, <4>3, <4>4 DEF Faithful, stores
    <3>3. CASE ReplayAnswered(q) \/ ReplayFails(q)
      <4>1. replays' \subseteq replays
        BY <3>3 DEF ReplayAnswered, ReplayFails, Step
      <4>. QED
        BY <1>0, <1>3, <2>5, <4>1
    <3>. QED
      BY <3>1, <3>2, <3>3
  <2>7. \A r \in replays' : r.name = n => Faithful(r)'
    BY <1>1, <2>5, <2>6
  <2>8. daemon'[n] # Stored(n)' => starting' > 0 \/ Replayed(n)' \/ n \in replayErrors'
    <3>1. CASE ReplaySecret(q) \/ ReplayRegisters(q)
      <4>1. later \in replays'
        BY <1>next, <3>1 DEF ReplaySecret, ReplayRegisters, Step
      <4>. QED
        BY <1>0, <1>3, <4>1 DEF Replayed
    <3>2. CASE ReplayAnswered(q)
      BY <1>3, <2>2, <2>3, <3>2 DEF ReplayAnswered, Faithful
    <3>3. CASE ReplayFails(q)
      BY <1>3, <3>3 DEF ReplayFails
    <3>. QED
      BY <3>1, <3>2, <3>3
  <2>9. Settled(n)'
    BY <1>1, <2>2, <2>3, <2>4, <2>7, <2>8 DEF Settled, stores
  <2>. QED
    BY <2>1, <2>9 DEF NameInv
<1>. QED
  BY <1>2, <1>3

-----------------------------------------------------------------------------
(* The invariant.                                                          *)

LEMMA InitInv == Init => IInv
<1>. SUFFICES ASSUME Init PROVE IInv
  OBVIOUS
<1>1. TypeOK
  BY InitType
<1>2. ASSUME NEW n \in Names PROVE NameInv(n)
  <2>1. \A c \in Commands : ~About(c, n)
    BY DEF Init, About
  <2>2. /\ disk = profiles /\ daemon[n] = None /\ replays = {} /\ starting = 1
    BY DEF Init
  <2>3. profiles[n] # None /\ profiles[n].keyed => secrets[n] # None
    <3>1. PICK stored \in [Names -> Attached \cup {None}] :
            /\ profiles = [m \in Names |-> IF stored[m] = None THEN None ELSE Profile(stored[m])]
            /\ secrets = [m \in Names |-> IF stored[m] = None THEN None ELSE stored[m].secret]
      BY DEF Init
    <3>. QED
      BY <3>1 DEF Profile
  <2>. QED
    BY <2>1, <2>2, <2>3 DEF NameInv, Settled
<1>. QED
  BY <1>1, <1>2 DEF IInv

LEMMA CommandStep ==
  ASSUME TypeOK, NEW c \in Commands, Attach(c) \/ Remove(c)
  PROVE  /\ TypeOK' /\ upset \subseteq upset'
         /\ \A n \in Names \ upset' : NameInv(n) => NameInv(n)'
<1>1. CASE Attach(c)
  <2>1. PICK m \in Names, a \in Attached : Command(c, "attach", m, a)
    BY <1>1 DEF Attach, Attached
  <2>3. upset \subseteq upset'
    BY <2>1 DEF Command
  <2>. QED
    BY <2>1, <2>3, CommandType, CommandKeeps
<1>2. CASE Remove(c)
  <2>1. PICK m \in Names : Command(c, "remove", m, None)
    BY <1>2 DEF Remove
  <2>2. upset \subseteq upset'
    BY <2>1 DEF Command
  <2>. QED
    BY <2>1, <2>2, CommandType, CommandKeeps
<1>. QED
  BY <1>1, <1>2

LEMMA StepInv == IInv /\ [Next]_vars => IInv'
<1>. SUFFICES ASSUME IInv, [Next]_vars
              PROVE  /\ TypeOK' /\ upset \subseteq upset'
                     /\ \A n \in Names \ upset' : NameInv(n) => NameInv(n)'
  BY DEF IInv
<1>0. TypeOK
  BY DEF IInv
<1>1. ASSUME NEW c \in Commands, Attach(c) \/ Remove(c)
      PROVE  /\ TypeOK' /\ upset \subseteq upset'
             /\ \A n \in Names \ upset' : NameInv(n) => NameInv(n)'
  BY <1>0, <1>1, CommandStep
<1>2. ASSUME NEW c \in Commands, DaemonRegisters(c) \/ DaemonRemoves(c) \/ RegisterFails(c)
      PROVE  /\ TypeOK' /\ upset \subseteq upset'
             /\ \A n \in Names \ upset' : NameInv(n) => NameInv(n)'
  <2>1. upset' = upset
    BY <1>2 DEF DaemonRegisters, DaemonRemoves, RegisterFails
  <2>. QED
    BY <1>0, <1>2, <2>1, RequestType, RequestKeeps
<1>3. ASSUME NEW c \in Commands, AddSource(c)
      PROVE  /\ TypeOK' /\ upset \subseteq upset'
             /\ \A n \in Names \ upset' : NameInv(n) => NameInv(n)'
  BY <1>0, <1>3, AddSourceType, AddSourceKeeps
<1>4. ASSUME NEW c \in Commands, SecretStored(c) \/ SecretDeleted(c)
      PROVE  /\ TypeOK' /\ upset \subseteq upset'
             /\ \A n \in Names \ upset' : NameInv(n) => NameInv(n)'
  <2>1. upset' = upset
    BY <1>4 DEF SecretStored, SecretDeleted
  <2>. QED
    BY <1>0, <1>4, <2>1, SecretType, SecretKeeps
<1>5. ASSUME NEW c \in Commands, SaveProfile(c) \/ ForgetProfile(c)
      PROVE  /\ TypeOK' /\ upset \subseteq upset'
             /\ \A n \in Names \ upset' : NameInv(n) => NameInv(n)'
  BY <1>0, <1>5, SaveStepType, SaveKeeps
<1>6. ASSUME NEW c \in Commands, RemoveAnswered(c) \/ RemoveFails(c) \/ SecretFails(c)
      PROVE  /\ TypeOK' /\ upset \subseteq upset'
             /\ \A n \in Names \ upset' : NameInv(n) => NameInv(n)'
  <2>1. upset \subseteq upset'
    BY <1>6 DEF RemoveAnswered, RemoveFails, SecretFails
  <2>. QED
    BY <1>0, <1>6, <2>1, RemoveType, RemoveKeeps
<1>7. ASSUME NEW c \in Commands, Flushed(c)
      PROVE  /\ TypeOK' /\ upset \subseteq upset'
             /\ \A n \in Names \ upset' : NameInv(n) => NameInv(n)'
  <2>1. upset' = upset
    BY <1>7 DEF Flushed
  <2>. QED
    BY <1>0, <1>7, <2>1, FlushedType, FlushedKeeps
<1>8. CASE Restart \/ Reload
  <2>1. upset \subseteq upset'
    BY <1>8 DEF Restart, Reload
  <2>. QED
    BY <1>0, <1>8, <2>1, RestartType, RestartKeeps
<1>9. CASE BeginReplay
  <2>1. upset' = upset
    BY <1>9 DEF BeginReplay
  <2>. QED
    BY <1>0, <1>9, <2>1, ReplayStepType, BeginKeeps
<1>10. ASSUME NEW r \in replays,
              ReplaySecret(r) \/ ReplayRegisters(r) \/ ReplayAnswered(r) \/ ReplayFails(r)
       PROVE  /\ TypeOK' /\ upset \subseteq upset'
              /\ \A n \in Names \ upset' : NameInv(n) => NameInv(n)'
  <2>1. upset' = upset
    BY <1>10 DEF ReplaySecret, ReplayRegisters, ReplayAnswered, ReplayFails
  <2>. QED
    BY <1>0, <1>10, <2>1, ReplayStepType, ReplayKeeps
<1>11. CASE Activated \/ UNCHANGED vars
  <2>1. UNCHANGED <<stores, replayErrors, daemon, run, starting, calls, replays, upset>>
    BY <1>11 DEF Activated, vars
  <2>2. TypeOK'
    <3>1. \A d \in Commands : Held(d)'
      BY <1>0, <2>1 DEF TypeOK, Held
    <3>. QED
      BY <1>0, <2>1, <3>1 DEF TypeOK, stores
  <2>3. \A n \in Names : NameInv(n) => NameInv(n)'
    BY <2>1, SparedKeeps DEF stores
  <2>. QED
    BY <2>1, <2>2, <2>3
<1>. QED
  BY <1>1, <1>2, <1>3, <1>4, <1>5, <1>6, <1>7, <1>8, <1>9, <1>10, <1>11 DEF Next

LEMMA IInvHolds == Spec => []IInv
BY InitInv, StepInv, PTL DEF Spec

\* A name that is not being dealt with is settled.
LEMMA QuietSettled ==
  ASSUME IInv, NEW n \in Names \ (Busy \cup upset)
  PROVE  Settled(n) /\ starting = 0 /\ ~Replayed(n)
<1>1. starting = 0 /\ n \notin InFlight /\ ~Replayed(n)
  BY DEF IInv, TypeOK, Busy, Replayed
<1>2. \A c \in Commands : ~About(c, n)
  BY <1>1 DEF InFlight, About
<1>. QED
  BY <1>1, <1>2 DEF IInv, NameInv

\* The daemon and the two stores agree about every name that nothing is being done
\* with, for any names, attachments, commands, restarts and reloads: attaching and
\* removing change one after the other, and replaying reads them again.
THEOREM StoresAgree == Spec => []ProfilesAgree
<1>1. IInv => ProfilesAgree
  BY QuietSettled DEF ProfilesAgree, Settled
<1>. QED
  BY <1>1, IInvHolds, PTL

\* What a finished command has stored survives the process, secret included.
THEOREM FinishedSurvives == Spec => []FinishedIsDurable
<1>1. IInv => FinishedIsDurable
  BY QuietSettled DEF FinishedIsDurable, Settled
<1>. QED
  BY <1>1, IInvHolds, PTL

=============================================================================
