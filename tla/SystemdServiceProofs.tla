------------------------- MODULE SystemdServiceProofs -------------------------
(***************************************************************************)
(* Proofs about a systemd unit as the settings page shows and switches it: *)
(* for queues of any length, whatever else uses the unit.                  *)
(***************************************************************************)
EXTENDS SystemdService, TLAPS

Awaits(m) == \E i \in DOMAIN inbox : inbox[i] = m

\* A unit that appeared is going to be looked at.
NewComes ==
  \E i \in DOMAIN inbox :
    inbox[i] = "UnitNew" /\ \A j \in DOMAIN inbox : j > i => inbox[j] # "UnitRemoved"

LoadInv ==
  /\ unit => created
  /\ ~systemd.loaded => systemd.active = "inactive"

(* A state that is out of date will be read: for a change of a property,   *)
(* or because the unit has appeared.  The second is not to be relied on    *)
(* for a unit that is down, since it may be unloaded again.                *)
StateInv ==
  unit /\ state # StateOf(systemd.active) =>
    \/ Awaits("ActiveState")
    \/ /\ systemd.active \notin Down
       /\ NewComes \/ (timer /\ ~Awaits("UnitRemoved"))

ShownInv ==
  unit => /\ shown.enabled # systemd.enabled => Awaits("UnitFileState")
          /\ shown.masked # systemd.masked => Awaits("Reloaded")

(* do is on its way and not undone after it; undo is not on its way.       *)
Last(cs, do, undo) ==
  \E i \in DOMAIN cs : cs[i] = do /\ \A j \in DOMAIN cs : j > i => cs[j] # undo
Never(cs, undo) == \A j \in DOMAIN cs : cs[j] # undo

IsOn  == systemd.job = "start" \/ (systemd.job = "none" /\ systemd.active = "active")
IsOff == systemd.job = "stop" \/ (systemd.job = "none" /\ systemd.active \in Down)

(* Without a disturbance a unit without a job is at one of its ends, and   *)
(* what systemd does and is still to be asked for is what was wanted.      *)
SwitchInv ==
  ~disturbed =>
    /\ systemd.active \notin {"reloading", "failed"}
    /\ systemd.job = "none" => systemd.active \in {"inactive", "active"}
    /\ wanted = "on" =>
         /\ Last(calls, "Start", "Stop") \/ (Never(calls, "Stop") /\ IsOn)
         /\ Last(calls, "Enable", "Disable") \/ (Never(calls, "Disable") /\ systemd.enabled)
    /\ wanted = "off" =>
         /\ Last(calls, "Stop", "Start") \/ (Never(calls, "Start") /\ IsOff)
         /\ Last(calls, "Disable", "Enable") \/ (Never(calls, "Enable") /\ ~systemd.enabled)

IInv == TypeOK /\ LoadInv /\ StateInv /\ ShownInv /\ SwitchInv

-----------------------------------------------------------------------------

LEMMA InitInv == Init => IInv
<1> SUFFICES ASSUME Init PROVE IInv
  OBVIOUS
<1>1. PICK up \in BOOLEAN, m \in BOOLEAN :
        systemd = [loaded |-> up, active |-> IF up THEN "active" ELSE "inactive",
                   job |-> "none", enabled |-> up, maskFile |-> m, masked |-> m]
  BY DEF Init
<1>2. TypeOK
  <2>1. systemd \in Systemd
    BY <1>1 DEF Systemd, ActiveStates
  <2>2. inbox \in Seq(Messages) /\ calls \in Seq(Methods)
    BY DEF Init
  <2> QED BY <2>1, <2>2 DEF Init, TypeOK, States
<1>3. LoadInv /\ StateInv /\ ShownInv /\ SwitchInv
  BY <1>1 DEF Init, LoadInv, StateInv, ShownInv, SwitchInv
<1> QED BY <1>2, <1>3 DEF IInv

(* What is awaited after a message has been sent, and after one has been   *)
(* taken.                                                                  *)
LEMMA AfterTold ==
  ASSUME inbox \in Seq(Messages), NEW m \in Messages, inbox' = Told(m)
  PROVE  /\ inbox' \in Seq(Messages)
         /\ \A n : Awaits(n) => Awaits(n)'
         /\ \A n : Awaits(n)' => Awaits(n) \/ n = m
         /\ Hears(m) => Awaits(m)'
         /\ NewComes /\ m # "UnitRemoved" => NewComes'
         /\ Hears(m) /\ m = "UnitNew" => NewComes'
<1>1. CASE ~Hears(m)
  <2>1. inbox' = inbox
    BY <1>1 DEF Told
  <2> QED BY <1>1, <2>1 DEF Awaits, NewComes
<1>2. CASE Hears(m)
  <2>1. inbox' = Append(inbox, m)
    BY <1>2 DEF Told
  <2>2. /\ inbox' \in Seq(Messages) /\ Len(inbox) \in Nat
        /\ DOMAIN inbox' = 1..(Len(inbox) + 1) /\ DOMAIN inbox = 1..Len(inbox)
        /\ \A i \in DOMAIN inbox : inbox'[i] = inbox[i]
        /\ inbox'[Len(inbox) + 1] = m
    BY <2>1
  <2> QED BY <2>2 DEF Awaits, NewComes
<1> QED BY <1>1, <1>2

LEMMA AfterTaken ==
  ASSUME inbox \in Seq(Messages), inbox # <<>>, NEW m, Head(inbox) = m, inbox' = Tail(inbox)
  PROVE  /\ inbox' \in Seq(Messages)
         /\ \A n : Awaits(n) => Awaits(n)' \/ n = m
         /\ \A n : Awaits(n)' => Awaits(n)
         /\ NewComes => NewComes' \/ (m = "UnitNew" /\ ~Awaits("UnitRemoved")')
<1>1. /\ inbox' \in Seq(Messages) /\ inbox[1] = m /\ Len(inbox) \in Nat \ {0}
      /\ DOMAIN inbox' = 1..(Len(inbox) - 1) /\ DOMAIN inbox = 1..Len(inbox)
      /\ \A i \in DOMAIN inbox' : inbox'[i] = inbox[i + 1]
  OBVIOUS
<1>2. ASSUME NEW i \in DOMAIN inbox, i # 1
      PROVE  i - 1 \in DOMAIN inbox' /\ inbox'[i - 1] = inbox[i]
  BY <1>1, <1>2
<1>3. \A n : Awaits(n) => Awaits(n)' \/ n = m
  BY <1>1, <1>2 DEF Awaits
<1>4. \A n : Awaits(n)' => Awaits(n)
  BY <1>1 DEF Awaits
<1>5. ASSUME NewComes PROVE NewComes' \/ (m = "UnitNew" /\ ~Awaits("UnitRemoved")')
  <2>1. PICK i \in DOMAIN inbox :
          inbox[i] = "UnitNew" /\ \A j \in DOMAIN inbox : j > i => inbox[j] # "UnitRemoved"
    BY <1>5 DEF NewComes
  <2>2. \A j \in DOMAIN inbox' : j + 1 > i => inbox'[j] # "UnitRemoved"
    BY <1>1, <2>1
  <2>3. CASE i = 1
    BY <1>1, <2>1, <2>2, <2>3 DEF Awaits
  <2>4. CASE i # 1
    <3>1. i - 1 \in DOMAIN inbox' /\ inbox'[i - 1] = "UnitNew"
      BY <1>2, <2>1, <2>4
    <3>2. \A j \in DOMAIN inbox' : j > i - 1 => inbox'[j] # "UnitRemoved"
      BY <1>1, <2>1, <2>2
    <3> QED BY <3>1, <3>2 DEF NewComes
  <2> QED BY <2>3, <2>4
<1> QED BY <1>1, <1>3, <1>4, <1>5

(* What is on its way after a call, and after an answer.                   *)
LEMMA AfterCall ==
  ASSUME NEW cs \in Seq(Methods), NEW c \in Methods, NEW do, NEW undo
  PROVE  /\ Append(cs, c) \in Seq(Methods)
         /\ Last(cs, do, undo) /\ c # undo => Last(Append(cs, c), do, undo)
         /\ c = do => Last(Append(cs, c), do, undo)
         /\ Never(cs, undo) /\ c # undo => Never(Append(cs, c), undo)
<1> DEFINE ds == Append(cs, c)
<1>1. /\ ds \in Seq(Methods) /\ Len(cs) \in Nat
      /\ DOMAIN ds = 1..(Len(cs) + 1) /\ DOMAIN cs = 1..Len(cs)
      /\ \A i \in DOMAIN cs : ds[i] = cs[i]
      /\ ds[Len(cs) + 1] = c
  OBVIOUS
<1> HIDE DEF ds
<1>2. Last(cs, do, undo) /\ c # undo => Last(ds, do, undo)
  BY <1>1 DEF Last
<1>3. c = do => Last(ds, do, undo)
  BY <1>1 DEF Last
<1>4. Never(cs, undo) /\ c # undo => Never(ds, undo)
  BY <1>1 DEF Never
<1> QED BY <1>1, <1>2, <1>3, <1>4 DEF ds

LEMMA AfterAnswer ==
  ASSUME NEW cs \in Seq(Methods), cs # <<>>, NEW do, NEW undo
  PROVE  /\ Tail(cs) \in Seq(Methods) /\ Head(cs) \in Methods
         /\ Last(cs, do, undo) => Last(Tail(cs), do, undo) \/ (Head(cs) = do /\ Never(Tail(cs), undo))
         /\ Never(cs, undo) => Head(cs) # undo /\ Never(Tail(cs), undo)
<1> DEFINE ds == Tail(cs)
<1>1. /\ ds \in Seq(Methods) /\ Head(cs) = cs[1] /\ Head(cs) \in Methods /\ Len(cs) \in Nat \ {0}
      /\ DOMAIN ds = 1..(Len(cs) - 1) /\ DOMAIN cs = 1..Len(cs)
      /\ \A i \in DOMAIN ds : ds[i] = cs[i + 1]
  OBVIOUS
<1> HIDE DEF ds
<1>2. ASSUME NEW i \in DOMAIN cs, i # 1
      PROVE  i - 1 \in DOMAIN ds /\ ds[i - 1] = cs[i]
  BY <1>1, <1>2
<1>3. ASSUME Last(cs, do, undo)
      PROVE  Last(ds, do, undo) \/ (Head(cs) = do /\ Never(ds, undo))
  <2>1. PICK i \in DOMAIN cs : cs[i] = do /\ \A j \in DOMAIN cs : j > i => cs[j] # undo
    BY <1>3 DEF Last
  <2>2. \A j \in DOMAIN ds : j + 1 > i => ds[j] # undo
    BY <1>1, <2>1
  <2>3. CASE i = 1
    BY <1>1, <2>1, <2>2, <2>3 DEF Never
  <2>4. CASE i # 1
    BY <1>1, <1>2, <2>1, <2>2, <2>4 DEF Last
  <2> QED BY <2>3, <2>4
<1>4. Never(cs, undo) => Head(cs) # undo /\ Never(ds, undo)
  BY <1>1 DEF Never
<1> QED BY <1>1, <1>3, <1>4 DEF ds

-----------------------------------------------------------------------------
(* systemd's steps                                                         *)

Jobs == {"none", "start", "stop"}

LEMMA Becomes ==
  ASSUME TypeOK, NEW a \in ActiveStates, NEW j \in Jobs, ActiveBecomes(a, j)
  PROVE  /\ systemd' \in Systemd
         /\ systemd'.active = a /\ systemd'.job = j /\ systemd'.loaded
         /\ systemd'.enabled = systemd.enabled /\ systemd'.masked = systemd.masked
BY DEF ActiveBecomes, TypeOK, Systemd, Jobs

(* A step of the unit from one state to another: the service is told.      *)
LEMMA UnitMoves ==
  ASSUME IInv, NEW a \in ActiveStates, NEW j \in Jobs, ActiveBecomes(a, j),
         ~systemd.loaded => a \notin Down,
         UNCHANGED <<created, unit, state, timer, shown, calls, wanted>>
  PROVE  /\ systemd' \in Systemd /\ inbox' \in Seq(Messages)
         /\ LoadInv' /\ StateInv' /\ ShownInv'
<1>1. /\ systemd' \in Systemd
      /\ systemd'.active = a /\ systemd'.job = j /\ systemd'.loaded
      /\ systemd'.enabled = systemd.enabled /\ systemd'.masked = systemd.masked
  BY Becomes DEF IInv
<1>2. inbox \in Seq(Messages)
  BY DEF IInv, TypeOK
<1>m. PICK m \in Messages :
        m = (IF systemd.loaded THEN "ActiveState" ELSE "UnitNew") /\ inbox' = Told(m)
  BY DEF Messages, ActiveBecomes
<1>3. /\ inbox' \in Seq(Messages)
      /\ \A n : Awaits(n) => Awaits(n)'
      /\ Hears(m) => Awaits(m)'
      /\ Hears(m) /\ m = "UnitNew" => NewComes'
  BY <1>2, <1>m, AfterTold
<1>4. LoadInv'
  BY <1>1 DEF IInv, LoadInv
<1>5. StateInv'
  <2> SUFFICES ASSUME unit PROVE Awaits("ActiveState")' \/ (a \notin Down /\ NewComes')
    BY <1>1 DEF StateInv
  <2>1. Hears(m)
    BY DEF Hears, IInv, LoadInv
  <2>2. CASE systemd.loaded
    BY <1>3, <2>1, <2>2, <1>m
  <2>3. CASE ~systemd.loaded
    BY <1>3, <2>1, <2>3, <1>m
  <2> QED BY <2>2, <2>3
<1>6. ShownInv'
  BY <1>1, <1>3 DEF IInv, ShownInv
<1> QED BY <1>1, <1>3, <1>4, <1>5, <1>6

(* A call is taken up: what was to be done is done, or still on its way.   *)
LEMMA AnswerStep == IInv /\ Answer => IInv'
<1> SUFFICES ASSUME IInv, Answer PROVE IInv'
  OBVIOUS
<1> DEFINE c == Head(calls)
<1>1. /\ calls # <<>> /\ calls' = Tail(calls)
      /\ UNCHANGED <<created, unit, state, timer, shown, wanted, disturbed>>
  BY DEF Answer
<1>2. TypeOK /\ LoadInv /\ StateInv /\ ShownInv /\ SwitchInv
  BY DEF IInv
<1>3. calls \in Seq(Methods) /\ inbox \in Seq(Messages) /\ systemd \in Systemd
  BY <1>2 DEF TypeOK
<1>4. /\ calls' \in Seq(Methods) /\ c \in Methods
      /\ \A do, undo : Last(calls, do, undo) => Last(calls, do, undo)' \/ (c = do /\ Never(calls, undo)')
      /\ \A undo : Never(calls, undo) => c # undo /\ Never(calls, undo)'
  BY <1>1, <1>3, AfterAnswer
<1> HIDE DEF c
<1> DEFINE Rest == /\ systemd' \in Systemd /\ inbox' \in Seq(Messages)
                   /\ LoadInv' /\ StateInv' /\ ShownInv' /\ SwitchInv'
<1>s. SUFFICES Rest
  <2>1. ASSUME Rest PROVE TypeOK'
    BY <1>1, <1>2, <1>4, <2>1 DEF TypeOK
  <2> QED BY <2>1 DEF IInv
<1>5. CASE c = "LoadUnit" /\ UNCHANGED systemd /\ \E m \in {"UnitPath", "LoadError"} : inbox' = Told(m)
  <2>1. PICK m \in {"UnitPath", "LoadError"} : inbox' = Told(m)
    BY <1>5
  <2>2. /\ inbox' \in Seq(Messages)
        /\ \A n : Awaits(n) => Awaits(n)'
        /\ \A n : Awaits(n)' => Awaits(n) \/ n = m
        /\ NewComes => NewComes'
    BY <1>3, <2>1, AfterTold DEF Messages
  <2>3. LoadInv' /\ StateInv' /\ ShownInv'
    BY <1>1, <1>2, <1>5, <2>2 DEF LoadInv, StateInv, ShownInv
  <2>4. SwitchInv'
    BY <1>1, <1>2, <1>4, <1>5 DEF SwitchInv, IsOn, IsOff
  <2> QED BY <1>3, <1>5, <2>2, <2>3, <2>4
<1>6. CASE /\ c \in {"Start", "Stop"}
           /\ systemd' = [systemd EXCEPT !.job = IF c = "Start" THEN "start" ELSE "stop"]
           /\ UNCHANGED inbox
  <2>1. /\ systemd' \in Systemd
        /\ systemd'.job = IF c = "Start" THEN "start" ELSE "stop"
        /\ systemd'.active = systemd.active /\ systemd'.loaded = systemd.loaded
        /\ systemd'.enabled = systemd.enabled /\ systemd'.masked = systemd.masked
    BY <1>3, <1>6 DEF Systemd
  <2>2. LoadInv' /\ StateInv' /\ ShownInv'
    BY <1>1, <1>2, <1>6, <2>1 DEF LoadInv, StateInv, ShownInv, Awaits, NewComes
  <2>3. SwitchInv'
    BY <1>1, <1>2, <1>4, <1>6, <2>1 DEF SwitchInv, IsOn, IsOff
  <2> QED BY <1>3, <1>6, <2>1, <2>2, <2>3
<1>7. CASE c \in {"Enable", "Disable"} /\ EnabledBecomes(c = "Enable")
  <2>1. /\ systemd' \in Systemd
        /\ systemd'.enabled = (c = "Enable")
        /\ systemd'.active = systemd.active /\ systemd'.loaded = systemd.loaded
        /\ systemd'.job = systemd.job /\ systemd'.masked = systemd.masked
    BY <1>3, <1>7 DEF EnabledBecomes, Systemd
  <2>2. /\ inbox' \in Seq(Messages)
        /\ \A n : Awaits(n) => Awaits(n)'
        /\ \A n : Awaits(n)' => Awaits(n) \/ n = "UnitFileState"
        /\ NewComes => NewComes'
        /\ unit /\ systemd.enabled # systemd'.enabled => Awaits("UnitFileState")'
    <3>1. CASE inbox' = inbox /\ systemd.enabled = systemd'.enabled
      BY <1>3, <3>1 DEF Awaits, NewComes
    <3>2. CASE inbox' = Told("UnitFileState")
      BY <1>3, <3>2, AfterTold DEF Messages, Hears
    <3> QED BY <1>7, <2>1, <3>1, <3>2 DEF EnabledBecomes
  <2>3. LoadInv' /\ StateInv' /\ ShownInv'
    BY <1>1, <1>2, <2>1, <2>2 DEF LoadInv, StateInv, ShownInv
  <2>4. SwitchInv'
    <3>0. systemd'.enabled <=> c = "Enable"
      BY <2>1
    <3>1. CASE c = "Enable"
      BY <1>1, <1>2, <1>4, <2>1, <3>0, <3>1 DEF SwitchInv, IsOn, IsOff
    <3>2. CASE c = "Disable"
      BY <1>1, <1>2, <1>4, <2>1, <3>0, <3>2 DEF SwitchInv, IsOn, IsOff
    <3> QED BY <1>7, <3>1, <3>2
  <2> QED BY <2>1, <2>2, <2>3, <2>4
<1>8. CASE c \in {"Mask", "Unmask"} /\ MaskFileBecomes(c = "Mask")
  <2>1. /\ systemd' \in Systemd
        /\ systemd'.active = systemd.active /\ systemd'.loaded = systemd.loaded
        /\ systemd'.job = systemd.job /\ systemd'.masked = systemd.masked
        /\ systemd'.enabled = systemd.enabled
    BY <1>3, <1>8 DEF MaskFileBecomes, Systemd
  <2>2. /\ inbox' \in Seq(Messages)
        /\ \A n : Awaits(n) => Awaits(n)'
        /\ \A n : Awaits(n)' => Awaits(n) \/ n = "MaskingChanged"
        /\ NewComes => NewComes'
    BY <1>3, <1>8, AfterTold DEF Messages, MaskFileBecomes
  <2>3. LoadInv' /\ StateInv' /\ ShownInv'
    BY <1>1, <1>2, <2>1, <2>2 DEF LoadInv, StateInv, ShownInv
  <2>4. SwitchInv'
    BY <1>1, <1>2, <1>4, <1>8, <2>1 DEF SwitchInv, IsOn, IsOff
  <2> QED BY <2>1, <2>2, <2>3, <2>4
<1>9. CASE /\ c = "Reload" /\ systemd' = [systemd EXCEPT !.masked = systemd.maskFile]
           /\ inbox' = Told("Reloaded")
  <2>1. /\ systemd' \in Systemd
        /\ systemd'.active = systemd.active /\ systemd'.loaded = systemd.loaded
        /\ systemd'.job = systemd.job /\ systemd'.enabled = systemd.enabled
    BY <1>3, <1>9 DEF Systemd
  <2>2. /\ inbox' \in Seq(Messages)
        /\ \A n : Awaits(n) => Awaits(n)'
        /\ \A n : Awaits(n)' => Awaits(n) \/ n = "Reloaded"
        /\ NewComes => NewComes'
        /\ unit => Awaits("Reloaded")'
    BY <1>2, <1>3, <1>9, AfterTold DEF Messages, Hears, LoadInv
  <2>3. LoadInv' /\ StateInv' /\ ShownInv'
    BY <1>1, <1>2, <2>1, <2>2 DEF LoadInv, StateInv, ShownInv
  <2>4. SwitchInv'
    BY <1>1, <1>2, <1>4, <1>9, <2>1 DEF SwitchInv, IsOn, IsOff
  <2> QED BY <2>1, <2>2, <2>3, <2>4
<1> QED BY <1>5, <1>6, <1>7, <1>8, <1>9 DEF Answer, c

LEMMA AnswerErrorStep == IInv /\ AnswerError => IInv'
<1> SUFFICES ASSUME IInv, AnswerError PROVE IInv'
  OBVIOUS
<1>1. calls' \in Seq(Methods)
  BY AfterAnswer DEF AnswerError, IInv, TypeOK
<1>2. TypeOK'
  BY <1>1 DEF AnswerError, IInv, TypeOK
<1>3. LoadInv' /\ StateInv' /\ ShownInv' /\ SwitchInv'
  BY DEF AnswerError, IInv, LoadInv, StateInv, ShownInv, SwitchInv, Awaits, NewComes
<1> QED BY <1>2, <1>3 DEF IInv

(* A job ends where it was to lead, and with none the unit is at rest.     *)
LEMMA WorkStep == IInv /\ Work => IInv'
<1> SUFFICES ASSUME IInv, Work PROVE IInv'
  OBVIOUS
<1> DEFINE Rest == /\ systemd' \in Systemd /\ inbox' \in Seq(Messages)
                   /\ LoadInv' /\ StateInv' /\ ShownInv' /\ SwitchInv'
<1>1. UNCHANGED <<created, unit, state, timer, shown, calls, wanted, disturbed>>
  BY DEF Work
<1>2. TypeOK /\ LoadInv /\ StateInv /\ ShownInv /\ SwitchInv
  BY DEF IInv
<1>3. systemd \in Systemd /\ inbox \in Seq(Messages)
  BY <1>2 DEF TypeOK
<1>4. ASSUME NEW a \in ActiveStates, NEW j \in Jobs, ActiveBecomes(a, j),
             ~systemd.loaded => a \notin Down,
             ~disturbed =>
               /\ a \notin {"reloading", "failed"}
               /\ j = "none" => a \in {"inactive", "active"}
               /\ IsOn => j = "start" \/ (j = "none" /\ a = "active")
               /\ IsOff => j = "stop" \/ (j = "none" /\ a \in Down)
      PROVE  Rest
  <2>1. /\ systemd' \in Systemd /\ inbox' \in Seq(Messages)
        /\ LoadInv' /\ StateInv' /\ ShownInv'
    BY <1>1, <1>4, UnitMoves
  <2>2. systemd'.active = a /\ systemd'.job = j /\ systemd'.enabled = systemd.enabled
    BY <1>2, <1>4, Becomes
  <2>3. (~disturbed /\ IsOn => IsOn') /\ (~disturbed /\ IsOff => IsOff')
    BY <1>4, <2>2 DEF IsOn, IsOff
  <2>4. SwitchInv'
    BY <1>1, <1>2, <1>4, <2>2, <2>3 DEF SwitchInv
  <2> QED BY <2>1, <2>4
<1>5. ASSUME <<systemd.job, systemd.active>> \in {<<"start", "active">>} \cup {"stop"} \X Down,
             systemd' = [systemd EXCEPT !.job = "none"], UNCHANGED inbox
      PROVE  Rest
  <2>1. /\ systemd' \in Systemd /\ systemd'.job = "none"
        /\ systemd'.active = systemd.active /\ systemd'.loaded = systemd.loaded
        /\ systemd'.enabled = systemd.enabled /\ systemd'.masked = systemd.masked
    BY <1>3, <1>5 DEF Systemd
  <2>2. \/ systemd.job = "start" /\ systemd.active = "active"
        \/ systemd.job = "stop" /\ systemd.active \in Down
    BY <1>5
  <2>3. LoadInv' /\ StateInv' /\ ShownInv'
    BY <1>1, <1>2, <1>5, <2>1 DEF LoadInv, StateInv, ShownInv, Awaits, NewComes
  <2>4. SwitchInv'
    BY <1>1, <1>2, <2>1, <2>2 DEF SwitchInv, IsOn, IsOff, Down
  <2> QED BY <1>3, <1>5, <2>1, <2>3, <2>4
<1>6. systemd.job \in Jobs /\ systemd.active \in ActiveStates
  BY <1>3 DEF Systemd, Jobs
<1>7. ~disturbed => /\ systemd.active \notin {"reloading", "failed"}
                    /\ systemd.job = "none" => systemd.active \in {"inactive", "active"}
  BY <1>2 DEF SwitchInv
<1>8. ~systemd.loaded => systemd.active = "inactive"
  BY <1>2 DEF LoadInv
<1>9. Rest
  <2>1. CASE systemd.job = "start" /\ systemd.active \in Down /\ ActiveBecomes("activating", "start")
    BY <1>4, <1>7, <2>1 DEF Jobs, ActiveStates, Down, IsOn, IsOff
  <2>2. CASE systemd.job = "start" /\ systemd.active = "activating" /\ ActiveBecomes("active", "none")
    BY <1>4, <1>7, <2>2 DEF Jobs, ActiveStates, Down, IsOn, IsOff
  <2>3. CASE systemd.job = "stop" /\ systemd.active \notin Down \cup {"deactivating"} /\ ActiveBecomes("deactivating", "stop")
    BY <1>4, <1>7, <2>3 DEF Jobs, ActiveStates, Down, IsOn, IsOff
  <2>4. CASE systemd.active = "deactivating"
             /\ ActiveBecomes("inactive", IF systemd.job = "start" THEN "start" ELSE "none")
    <3>1. PICK j \in Jobs : j = (IF systemd.job = "start" THEN "start" ELSE "none") /\ ActiveBecomes("inactive", j)
      BY <2>4 DEF Jobs
    <3> QED BY <1>4, <1>6, <1>7, <1>8, <2>4, <3>1 DEF Jobs, ActiveStates, Down, IsOn, IsOff
  <2>5. CASE systemd.active = "reloading" /\ systemd.job # "stop" /\ ActiveBecomes("active", systemd.job)
    <3>1. PICK j \in Jobs : j = systemd.job /\ ActiveBecomes("active", j)
      BY <1>6, <2>5
    <3> QED BY <1>4, <1>7, <2>5, <3>1 DEF ActiveStates, Down, IsOn, IsOff
  <2> QED BY <1>5, <2>1, <2>2, <2>3, <2>4, <2>5 DEF Work
<1>10. TypeOK'
  BY <1>1, <1>2, <1>9 DEF TypeOK
<1> QED BY <1>9, <1>10 DEF IInv

LEMMA FailStep == IInv /\ Fail => IInv'
<1> SUFFICES ASSUME IInv, Fail PROVE IInv'
  OBVIOUS
<1>1. /\ ActiveBecomes("failed", "none") /\ disturbed'
      /\ disturbed' \in BOOLEAN
      /\ systemd.loaded
      /\ UNCHANGED <<created, unit, state, timer, shown, calls, wanted>>
  BY DEF Fail, IInv, LoadInv, TypeOK, Systemd
<1>2. /\ systemd' \in Systemd /\ inbox' \in Seq(Messages)
      /\ LoadInv' /\ StateInv' /\ ShownInv'
  BY <1>1, UnitMoves DEF ActiveStates, Jobs
<1>3. TypeOK' /\ SwitchInv'
  BY <1>1, <1>2 DEF IInv, TypeOK, SwitchInv
<1> QED BY <1>2, <1>3 DEF IInv

(* A unit that is unloaded is down: if that is not shown, it has been told.*)
LEMMA UnloadStep == IInv /\ Unload => IInv'
<1> SUFFICES ASSUME IInv, Unload PROVE IInv'
  OBVIOUS
<1>1. /\ systemd.loaded /\ systemd.active \in Down /\ systemd.job = "none"
      /\ systemd' = [systemd EXCEPT !.loaded = FALSE, !.active = "inactive"]
      /\ inbox' = Told("UnitRemoved")
      /\ UNCHANGED <<created, unit, state, timer, shown, calls, wanted, disturbed>>
  BY DEF Unload
<1>2. TypeOK /\ LoadInv /\ StateInv /\ ShownInv /\ SwitchInv
  BY DEF IInv
<1>3. /\ systemd' \in Systemd
      /\ systemd'.active = "inactive" /\ systemd'.job = "none"
      /\ systemd'.enabled = systemd.enabled /\ systemd'.masked = systemd.masked
  BY <1>1, <1>2 DEF TypeOK, Systemd, ActiveStates
<1>4. inbox' \in Seq(Messages) /\ \A n : Awaits(n) => Awaits(n)'
  BY <1>1, <1>2, AfterTold DEF TypeOK, Messages
<1>5. TypeOK'
  BY <1>1, <1>2, <1>3, <1>4 DEF TypeOK
<1>6. LoadInv' /\ StateInv' /\ ShownInv'
  BY <1>1, <1>2, <1>3, <1>4 DEF LoadInv, StateInv, ShownInv, StateOf, Down
<1>7. SwitchInv'
  BY <1>1, <1>2, <1>3 DEF SwitchInv, IsOn, IsOff, Down
<1> QED BY <1>5, <1>6, <1>7 DEF IInv

LEMMA OtherStep == IInv /\ Other => IInv'
<1> SUFFICES ASSUME IInv, Other PROVE IInv'
  OBVIOUS
<1>1. disturbed' /\ disturbed' \in BOOLEAN
      /\ UNCHANGED <<created, unit, state, timer, shown, calls, wanted>>
  BY DEF Other
<1>2. TypeOK /\ LoadInv /\ StateInv /\ ShownInv
  BY DEF IInv
<1>3. inbox \in Seq(Messages) /\ systemd \in Systemd
  BY <1>2 DEF TypeOK
<1> DEFINE Rest == /\ systemd' \in Systemd /\ inbox' \in Seq(Messages)
                   /\ LoadInv' /\ StateInv' /\ ShownInv'
<1>4. ASSUME NEW j \in {"start", "stop"}, systemd' = [systemd EXCEPT !.job = j], UNCHANGED inbox
      PROVE  Rest
  <2>1. /\ systemd' \in Systemd
        /\ systemd'.active = systemd.active /\ systemd'.loaded = systemd.loaded
        /\ systemd'.enabled = systemd.enabled /\ systemd'.masked = systemd.masked
    BY <1>3, <1>4 DEF Systemd
  <2> QED BY <1>1, <1>2, <1>3, <1>4, <2>1 DEF LoadInv, StateInv, ShownInv, Awaits, NewComes
<1>5. ASSUME systemd.active = "active", ActiveBecomes("reloading", systemd.job)
      PROVE  Rest
  <2>1. PICK j \in Jobs : ActiveBecomes("reloading", j)
    BY <1>3, <1>5 DEF Systemd, Jobs
  <2> QED BY <1>1, <2>1, UnitMoves DEF ActiveStates, Down
<1>6. ASSUME EnabledBecomes(~systemd.enabled)
      PROVE  Rest
  <2>1. /\ systemd' \in Systemd
        /\ systemd'.active = systemd.active /\ systemd'.loaded = systemd.loaded
        /\ systemd'.masked = systemd.masked
        /\ inbox' = Told("UnitFileState")
    BY <1>3, <1>6 DEF EnabledBecomes, Systemd
  <2>2. /\ inbox' \in Seq(Messages)
        /\ \A n : Awaits(n) => Awaits(n)'
        /\ \A n : Awaits(n)' => Awaits(n) \/ n = "UnitFileState"
        /\ NewComes => NewComes'
        /\ unit => Awaits("UnitFileState")'
    BY <1>3, <2>1, AfterTold DEF Messages, Hears
  <2> QED BY <1>1, <1>2, <2>1, <2>2 DEF LoadInv, StateInv, ShownInv
<1>7. Rest
  BY <1>4, <1>5, <1>6 DEF Other
<1>8. TypeOK' /\ SwitchInv'
  BY <1>1, <1>2, <1>7 DEF TypeOK, SwitchInv
<1> QED BY <1>7, <1>8 DEF IInv

-----------------------------------------------------------------------------
(* The service's steps                                                     *)

LEMMA ComponentCompleteStep == IInv /\ ComponentComplete => IInv'
<1> SUFFICES ASSUME IInv, ComponentComplete PROVE IInv'
  OBVIOUS
<1>1. /\ ~created /\ calls = <<>> /\ created' = TRUE /\ calls' = <<"LoadUnit">>
      /\ systemd' = [systemd EXCEPT !.masked = systemd.maskFile]
      /\ UNCHANGED <<unit, state, timer, shown, inbox, wanted, disturbed>>
  BY DEF ComponentComplete
<1>2. TypeOK /\ LoadInv /\ StateInv /\ ShownInv /\ SwitchInv
  BY DEF IInv
<1>3. /\ systemd' \in Systemd
      /\ systemd'.active = systemd.active /\ systemd'.loaded = systemd.loaded
      /\ systemd'.job = systemd.job /\ systemd'.enabled = systemd.enabled
  BY <1>1, <1>2 DEF TypeOK, Systemd
<1>4. /\ calls' \in Seq(Methods)
      /\ \A do, undo : Last(calls, do, undo) => Last(calls, do, undo)'
      /\ \A undo : Never(calls, undo) /\ undo # "LoadUnit" => Never(calls, undo)'
  <2>1. calls' = Append(calls, "LoadUnit") /\ calls \in Seq(Methods) /\ "LoadUnit" \in Methods
    BY <1>1 DEF Methods
  <2>2. \A do, undo : ~Last(calls, do, undo)
    BY <1>1 DEF Last
  <2> QED BY <2>1, <2>2, AfterCall
<1>5. TypeOK'
  BY <1>1, <1>2, <1>3, <1>4 DEF TypeOK
<1>6. LoadInv' /\ StateInv' /\ ShownInv'
  BY <1>1, <1>2, <1>3 DEF LoadInv, StateInv, ShownInv
<1>7. SwitchInv'
  BY <1>1, <1>2, <1>3, <1>4 DEF SwitchInv, IsOn, IsOff
<1> QED BY <1>5, <1>6, <1>7 DEF IInv

LEMMA DestroyedStep == IInv /\ Destroyed => IInv'
<1> SUFFICES ASSUME IInv, Destroyed PROVE IInv'
  OBVIOUS
<1>1. TypeOK'
  <2>1. shown' \in [enabled : BOOLEAN, masked : BOOLEAN] /\ inbox' \in Seq(Messages)
    BY DEF Destroyed
  <2> QED BY <2>1 DEF IInv, Destroyed, TypeOK, States
<1>2. LoadInv' /\ StateInv' /\ ShownInv'
  BY DEF IInv, Destroyed, LoadInv, StateInv, ShownInv
<1>3. SwitchInv'
  BY DEF IInv, Destroyed, SwitchInv, IsOn, IsOff
<1> QED BY <1>1, <1>2, <1>3 DEF IInv

LEMMA Received ==
  ASSUME IInv, NEW m, Receive(m)
  PROVE  /\ inbox' \in Seq(Messages)
         /\ \A n : Awaits(n) => Awaits(n)' \/ n = m
         /\ NewComes => NewComes' \/ (m = "UnitNew" /\ ~Awaits("UnitRemoved")')
         /\ \A n : Awaits(n)' => Awaits(n)
         /\ Awaits(m)
         /\ created /\ UNCHANGED <<created, systemd, wanted, disturbed>>
<1>1. inbox \in Seq(Messages) /\ inbox # <<>> /\ Head(inbox) = m /\ inbox' = Tail(inbox)
  BY DEF IInv, TypeOK, Receive
<1>2. Awaits(m)
  BY <1>1 DEF Awaits
<1> QED BY <1>1, <1>2, AfterTaken DEF Receive

LEMMA StateRead == systemd \in Systemd => StateOf(systemd.active) \in States
BY DEF StateOf, States

LEMMA GotUnitPathStep == IInv /\ GotUnitPath => IInv'
<1> SUFFICES ASSUME IInv, GotUnitPath PROVE IInv'
  OBVIOUS
<1>1. TypeOK /\ LoadInv /\ SwitchInv /\ systemd \in Systemd
  BY DEF IInv, TypeOK
<1>2. /\ inbox' \in Seq(Messages) /\ created
      /\ UNCHANGED <<created, systemd, wanted, disturbed>>
  BY Received DEF GotUnitPath
<1>3. /\ unit' = TRUE /\ state' = StateOf(systemd.active)
      /\ shown' = [enabled |-> systemd.enabled, masked |-> systemd.masked]
      /\ UNCHANGED <<timer, calls>>
  BY DEF GotUnitPath
<1>4. TypeOK'
  <2>1. shown' \in [enabled : BOOLEAN, masked : BOOLEAN]
    BY <1>1, <1>3 DEF Systemd
  <2> QED BY <1>1, <1>2, <1>3, <2>1, StateRead DEF TypeOK
<1>5. LoadInv' /\ SwitchInv'
  BY <1>1, <1>2, <1>3 DEF LoadInv, SwitchInv, IsOn, IsOff
<1>6. StateInv' /\ ShownInv'
  BY <1>2, <1>3 DEF StateInv, ShownInv
<1> QED BY <1>4, <1>5, <1>6 DEF IInv

LEMMA GotNoUnitPathStep == IInv /\ GotNoUnitPath => IInv'
<1> SUFFICES ASSUME IInv, GotNoUnitPath PROVE IInv'
  OBVIOUS
<1>1. TypeOK /\ LoadInv /\ StateInv /\ ShownInv /\ SwitchInv
  BY DEF IInv
<1>2. /\ inbox' \in Seq(Messages)
      /\ \A n : Awaits(n) => Awaits(n)' \/ n = "LoadError"
      /\ NewComes => NewComes'
      /\ \A n : Awaits(n)' => Awaits(n)
      /\ UNCHANGED <<created, systemd, wanted, disturbed>>
      /\ UNCHANGED <<unit, state, timer, shown, calls>>
  BY Received DEF GotNoUnitPath
<1>3. TypeOK' /\ LoadInv' /\ SwitchInv'
  BY <1>1, <1>2 DEF TypeOK, LoadInv, SwitchInv, IsOn, IsOff
<1>4. StateInv' /\ ShownInv'
  BY <1>1, <1>2 DEF StateInv, ShownInv
<1> QED BY <1>3, <1>4 DEF IInv

LEMMA PropertiesChangedStep == IInv /\ PropertiesChanged => IInv'
<1> SUFFICES ASSUME IInv, PropertiesChanged PROVE IInv'
  OBVIOUS
<1>1. TypeOK /\ LoadInv /\ StateInv /\ ShownInv /\ SwitchInv /\ systemd \in Systemd
  BY DEF IInv, TypeOK
<1>2. ASSUME Receive("ActiveState"), state' = StateOf(systemd.active),
             UNCHANGED <<unit, timer, shown, calls>>
      PROVE  IInv'
  <2>1. /\ inbox' \in Seq(Messages)
        /\ \A n : Awaits(n) => Awaits(n)' \/ n = "ActiveState"
        /\ UNCHANGED <<created, systemd, wanted, disturbed>>
    BY <1>2, Received
  <2>2. TypeOK' /\ LoadInv' /\ SwitchInv'
    BY <1>1, <1>2, <2>1, StateRead DEF TypeOK, LoadInv, SwitchInv, IsOn, IsOff
  <2>3. StateInv' /\ ShownInv'
    BY <1>1, <1>2, <2>1 DEF StateInv, ShownInv
  <2> QED BY <2>2, <2>3 DEF IInv
<1>3. ASSUME Receive("UnitFileState"), shown' = [shown EXCEPT !.enabled = Enabled],
             UNCHANGED <<unit, state, timer, calls>>
      PROVE  IInv'
  <2>1. /\ inbox' \in Seq(Messages)
        /\ \A n : Awaits(n) => Awaits(n)' \/ n = "UnitFileState"
        /\ \A n : Awaits(n)' => Awaits(n)
        /\ NewComes => NewComes'
        /\ UNCHANGED <<created, systemd, wanted, disturbed>>
    BY <1>3, Received
  <2>2. systemd.enabled \in BOOLEAN /\ unit \in BOOLEAN
    BY <1>1 DEF Systemd, TypeOK
  <2>3. Enabled \in BOOLEAN /\ (unit => Enabled = systemd.enabled)
    BY <2>2 DEF Enabled
  <2>4. /\ shown' \in [enabled : BOOLEAN, masked : BOOLEAN]
        /\ unit => shown'.enabled = systemd.enabled
        /\ shown'.masked = shown.masked
    BY <1>1, <1>3, <2>3 DEF TypeOK
  <2>5. TypeOK' /\ LoadInv' /\ SwitchInv'
    BY <1>1, <1>3, <2>1, <2>4 DEF TypeOK, LoadInv, SwitchInv, IsOn, IsOff
  <2>6. StateInv' /\ ShownInv'
    BY <1>1, <1>3, <2>1, <2>4 DEF StateInv, ShownInv
  <2> QED BY <2>5, <2>6 DEF IInv
<1> QED BY <1>2, <1>3 DEF PropertiesChanged

(* The unit will be looked at when the timer ends, unless a signal that is *)
(* still to come calls that off.                                           *)
LEMMA HandleUnitNewStep == IInv /\ HandleUnitNew => IInv'
<1> SUFFICES ASSUME IInv, HandleUnitNew PROVE IInv'
  OBVIOUS
<1>1. TypeOK /\ LoadInv /\ StateInv /\ ShownInv /\ SwitchInv
  BY DEF IInv
<1>2. /\ inbox' \in Seq(Messages)
      /\ \A n : Awaits(n) => Awaits(n)' \/ n = "UnitNew"
      /\ NewComes => NewComes' \/ ~Awaits("UnitRemoved")'
      /\ \A n : Awaits(n)' => Awaits(n)
      /\ UNCHANGED <<created, systemd, wanted, disturbed>>
      /\ timer' = TRUE /\ UNCHANGED <<unit, state, shown, calls>>
  BY Received DEF HandleUnitNew
<1>3. TypeOK' /\ LoadInv' /\ SwitchInv'
  BY <1>1, <1>2 DEF TypeOK, LoadInv, SwitchInv, IsOn, IsOff
<1>4. StateInv' /\ ShownInv'
  BY <1>1, <1>2 DEF StateInv, ShownInv
<1> QED BY <1>3, <1>4 DEF IInv

LEMMA HandleUnitRemovedStep == IInv /\ HandleUnitRemoved => IInv'
<1> SUFFICES ASSUME IInv, HandleUnitRemoved PROVE IInv'
  OBVIOUS
<1>1. TypeOK /\ LoadInv /\ StateInv /\ ShownInv /\ SwitchInv
  BY DEF IInv
<1>2. /\ inbox' \in Seq(Messages)
      /\ \A n : Awaits(n) => Awaits(n)' \/ n = "UnitRemoved"
      /\ NewComes => NewComes'
      /\ Awaits("UnitRemoved")
      /\ UNCHANGED <<created, systemd, wanted, disturbed>>
      /\ timer' = FALSE /\ UNCHANGED <<unit, state, shown, calls>>
  BY Received DEF HandleUnitRemoved
<1>3. TypeOK' /\ LoadInv' /\ SwitchInv'
  BY <1>1, <1>2 DEF TypeOK, LoadInv, SwitchInv, IsOn, IsOff
<1>4. StateInv' /\ ShownInv'
  BY <1>1, <1>2 DEF StateInv, ShownInv
<1> QED BY <1>3, <1>4 DEF IInv

LEMMA CheckUnitStateStep == IInv /\ CheckUnitState => IInv'
<1> SUFFICES ASSUME IInv, CheckUnitState PROVE IInv'
  OBVIOUS
<1>1. TypeOK /\ LoadInv /\ StateInv /\ ShownInv /\ SwitchInv /\ systemd \in Systemd
  BY DEF IInv, TypeOK
<1>2. /\ timer' = FALSE
      /\ state' = IF unit THEN StateOf(systemd.active) ELSE state
      /\ UNCHANGED <<created, unit, shown, inbox, calls, systemd, wanted, disturbed>>
  BY DEF CheckUnitState
<1>3. TypeOK' /\ LoadInv' /\ SwitchInv'
  BY <1>1, <1>2, StateRead DEF TypeOK, LoadInv, SwitchInv, IsOn, IsOff
<1>4. StateInv' /\ ShownInv'
  BY <1>1, <1>2 DEF StateInv, ShownInv, Awaits
<1> QED BY <1>3, <1>4 DEF IInv

LEMMA MaskingChangedStep == IInv /\ MaskingChanged => IInv'
<1> SUFFICES ASSUME IInv, MaskingChanged PROVE IInv'
  OBVIOUS
<1>1. TypeOK /\ LoadInv /\ StateInv /\ ShownInv /\ SwitchInv
  BY DEF IInv
<1>2. /\ inbox' \in Seq(Messages)
      /\ \A n : Awaits(n) => Awaits(n)' \/ n = "MaskingChanged"
      /\ NewComes => NewComes'
      /\ \A n : Awaits(n)' => Awaits(n)
      /\ UNCHANGED <<created, systemd, wanted, disturbed>>
      /\ UNCHANGED <<unit, state, timer, shown>>
  BY Received DEF MaskingChanged
<1>3. /\ calls' \in Seq(Methods)
      /\ \A do, undo : Last(calls, do, undo) /\ undo # "Reload" => Last(calls, do, undo)'
      /\ \A undo : Never(calls, undo) /\ undo # "Reload" => Never(calls, undo)'
  <2>1. calls' = Append(calls, "Reload") /\ calls \in Seq(Methods) /\ "Reload" \in Methods
    BY <1>1 DEF MaskingChanged, Methods, TypeOK
  <2> QED BY <2>1, AfterCall
<1>4. TypeOK' /\ LoadInv'
  BY <1>1, <1>2, <1>3 DEF TypeOK, LoadInv
<1>5. SwitchInv'
  BY <1>1, <1>2, <1>3 DEF SwitchInv, IsOn, IsOff
<1>6. StateInv' /\ ShownInv'
  BY <1>1, <1>2 DEF StateInv, ShownInv
<1> QED BY <1>4, <1>5, <1>6 DEF IInv

LEMMA ReloadedStep == IInv /\ Reloaded => IInv'
<1> SUFFICES ASSUME IInv, Reloaded PROVE IInv'
  OBVIOUS
<1>1. TypeOK /\ LoadInv /\ StateInv /\ ShownInv /\ SwitchInv /\ systemd \in Systemd
  BY DEF IInv, TypeOK
<1>2. /\ inbox' \in Seq(Messages)
      /\ \A n : Awaits(n) => Awaits(n)' \/ n = "Reloaded"
      /\ NewComes => NewComes'
      /\ \A n : Awaits(n)' => Awaits(n)
      /\ UNCHANGED <<created, systemd, wanted, disturbed>>
      /\ shown' = [shown EXCEPT !.masked = Masked] /\ UNCHANGED <<unit, state, timer, calls>>
  BY Received DEF Reloaded
<1>3. systemd.masked \in BOOLEAN /\ unit \in BOOLEAN
  BY <1>1 DEF Systemd, TypeOK
<1>4. Masked \in BOOLEAN /\ (unit => Masked = systemd.masked)
  BY <1>3 DEF Masked
<1>5. /\ shown' \in [enabled : BOOLEAN, masked : BOOLEAN]
      /\ unit => shown'.masked = systemd.masked
      /\ shown'.enabled = shown.enabled
  BY <1>1, <1>2, <1>4 DEF TypeOK
<1>6. TypeOK' /\ LoadInv' /\ SwitchInv'
  BY <1>1, <1>2, <1>5 DEF TypeOK, LoadInv, SwitchInv, IsOn, IsOff
<1>7. StateInv' /\ ShownInv'
  BY <1>1, <1>2, <1>5 DEF StateInv, ShownInv
<1> QED BY <1>6, <1>7 DEF IInv

-----------------------------------------------------------------------------
(* The user's steps                                                        *)

(* A click asks for both again, after all that was asked for before.       *)
LEMMA ClickStep == IInv /\ Click => IInv'
<1> SUFFICES ASSUME IInv, Click PROVE IInv'
  OBVIOUS
<1>1. TypeOK /\ LoadInv /\ StateInv /\ ShownInv /\ SwitchInv
  BY DEF IInv
<1>2. /\ UNCHANGED <<created, unit, state, timer, shown, inbox, systemd, disturbed>>
      /\ calls' = IF Checked THEN SetEnabled(Stop(calls), FALSE) ELSE SetEnabled(Start(calls), TRUE)
      /\ wanted' = IF Checked THEN "off" ELSE "on"
  BY DEF Click
<1>3. ASSUME NEW do \in Methods, NEW undo \in Methods, NEW en \in Methods, NEW dis \in Methods,
             {do, undo} \cap {en, dis} = {}, en # dis,
             calls' = Append(Append(calls, do), en)
      PROVE  /\ calls' \in Seq(Methods)
             /\ Last(calls, do, undo)' /\ Last(calls, en, dis)'
  <2> DEFINE mid == Append(calls, do)
  <2>1. calls \in Seq(Methods)
    BY <1>1 DEF TypeOK
  <2>2. mid \in Seq(Methods) /\ Last(mid, do, undo)
    BY <2>1, AfterCall
  <2> HIDE DEF mid
  <2>3. /\ Append(mid, en) \in Seq(Methods)
        /\ Last(Append(mid, en), do, undo) /\ Last(Append(mid, en), en, dis)
    BY <1>3, <2>2, AfterCall
  <2>4. calls' = Append(mid, en)
    BY <1>3 DEF mid
  <2> QED BY <2>3, <2>4
<1>4. CASE Checked
  <2>1. calls' = Append(Append(calls, "Stop"), "Disable") /\ wanted' = "off"
    BY <1>2, <1>4 DEF Checked, SetEnabled, Stop
  <2>2. /\ calls' \in Seq(Methods)
        /\ Last(calls, "Stop", "Start")' /\ Last(calls, "Disable", "Enable")'
    BY <1>3, <2>1 DEF Methods
  <2>3. SwitchInv'
    BY <1>1, <1>2, <2>1, <2>2 DEF SwitchInv
  <2>4. TypeOK'
    BY <1>1, <1>2, <2>1, <2>2 DEF TypeOK
  <2>5. LoadInv' /\ StateInv' /\ ShownInv'
    BY <1>1, <1>2 DEF LoadInv, StateInv, ShownInv, Awaits, NewComes
  <2> QED BY <2>3, <2>4, <2>5 DEF IInv
<1>5. CASE ~Checked
  <2>1. calls' = Append(Append(calls, "Start"), "Enable") /\ wanted' = "on"
    BY <1>2, <1>5 DEF Checked, SetEnabled, Start
  <2>2. /\ calls' \in Seq(Methods)
        /\ Last(calls, "Start", "Stop")' /\ Last(calls, "Enable", "Disable")'
    BY <1>3, <2>1 DEF Methods
  <2>3. SwitchInv'
    BY <1>1, <1>2, <2>1, <2>2 DEF SwitchInv
  <2>4. TypeOK'
    BY <1>1, <1>2, <2>1, <2>2 DEF TypeOK
  <2>5. LoadInv' /\ StateInv' /\ ShownInv'
    BY <1>1, <1>2 DEF LoadInv, StateInv, ShownInv, Awaits, NewComes
  <2> QED BY <2>3, <2>4, <2>5 DEF IInv
<1> QED BY <1>4, <1>5

LEMMA SetMaskedStep == ASSUME IInv, NEW m \in BOOLEAN, SetMasked(m) PROVE IInv'
<1>1. TypeOK /\ LoadInv /\ StateInv /\ ShownInv /\ SwitchInv
  BY DEF IInv
<1>2. UNCHANGED <<created, unit, state, timer, shown, inbox, systemd, wanted, disturbed>>
  BY DEF SetMasked
<1>3. /\ calls' \in Seq(Methods)
      /\ \A do, undo : Last(calls, do, undo) /\ undo \notin {"Mask", "Unmask"} => Last(calls, do, undo)'
      /\ \A undo : Never(calls, undo) /\ undo \notin {"Mask", "Unmask"} => Never(calls, undo)'
  <2>1. PICK c \in {"Mask", "Unmask"} : calls' = Append(calls, c)
    BY DEF SetMasked
  <2>2. calls \in Seq(Methods) /\ c \in Methods
    BY <1>1 DEF Methods, TypeOK
  <2> QED BY <2>1, <2>2, AfterCall
<1>4. SwitchInv'
  BY <1>1, <1>2, <1>3 DEF SwitchInv, IsOn, IsOff
<1>5. TypeOK' /\ LoadInv' /\ StateInv' /\ ShownInv'
  BY <1>1, <1>2, <1>3 DEF TypeOK, LoadInv, StateInv, ShownInv, Awaits, NewComes
<1> QED BY <1>4, <1>5 DEF IInv

-----------------------------------------------------------------------------

LEMMA NextInv == IInv /\ [Next]_vars => IInv'
<1> SUFFICES ASSUME IInv, [Next]_vars PROVE IInv'
  OBVIOUS
<1>1. CASE Answer \/ AnswerError \/ Work \/ Fail \/ Unload \/ Other
  BY <1>1, AnswerStep, AnswerErrorStep, WorkStep, FailStep, UnloadStep, OtherStep
<1>2. CASE ComponentComplete \/ Destroyed
  BY <1>2, ComponentCompleteStep, DestroyedStep
<1>3. CASE Handlers
  BY <1>3, GotUnitPathStep, GotNoUnitPathStep, PropertiesChangedStep, HandleUnitNewStep,
     HandleUnitRemovedStep, CheckUnitStateStep, MaskingChangedStep, ReloadedStep DEF Handlers
<1>4. CASE Click \/ \E m \in BOOLEAN : SetMasked(m)
  BY <1>4, ClickStep, SetMaskedStep
<1>5. CASE UNCHANGED vars
  BY <1>5 DEF vars, IInv, TypeOK, LoadInv, StateInv, ShownInv, SwitchInv, Awaits, NewComes, IsOn, IsOff
<1> QED BY <1>1, <1>2, <1>3, <1>4, <1>5 DEF Next

(* The invariant gives what the page promises.                             *)
LEMMA InvImplies == IInv => TypeOK /\ QuietMeansRight /\ ShownIsTrue /\ SwitchAgrees
<1> SUFFICES ASSUME IInv PROVE TypeOK /\ QuietMeansRight /\ ShownIsTrue /\ SwitchAgrees
  OBVIOUS
<1>1. TypeOK /\ LoadInv /\ StateInv /\ ShownInv /\ SwitchInv
  BY DEF IInv
<1>2. systemd.active \in ActiveStates /\ systemd.enabled \in BOOLEAN
  BY <1>1 DEF TypeOK, Systemd
<1>3. QuietMeansRight
  <2> SUFFICES ASSUME unit, inbox = <<>>, ~timer
               PROVE  /\ Checked <=> systemd.active \notin Down
                      /\ Busy <=> systemd.active \in {"activating", "deactivating"}
    BY DEF QuietMeansRight, Quiet
  <2>1. \A n : ~Awaits(n)
    BY DEF Awaits
  <2>2. ~NewComes
    BY DEF NewComes
  <2>3. state = StateOf(systemd.active)
    BY <1>1, <2>1, <2>2 DEF StateInv
  <2> QED BY <1>2, <2>3 DEF StateOf, ActiveStates, Checked, Busy, Down
<1>4. ShownIsTrue
  <2> SUFFICES ASSUME unit, inbox = <<>>
               PROVE  shown = [enabled |-> systemd.enabled, masked |-> systemd.masked]
    BY DEF ShownIsTrue
  <2>1. \A n : ~Awaits(n)
    BY DEF Awaits
  <2>2. shown.enabled = systemd.enabled /\ shown.masked = systemd.masked
    BY <1>1, <2>1 DEF ShownInv
  <2> QED BY <1>1, <2>2 DEF TypeOK
<1>5. SwitchAgrees
  <2> SUFFICES ASSUME ~disturbed, wanted # "none", calls = <<>>, systemd.job = "none"
               PROVE  /\ systemd.enabled <=> wanted = "on"
                      /\ systemd.active = "active" <=> wanted = "on"
    BY DEF SwitchAgrees
  <2>1. \A do, undo : ~Last(calls, do, undo)
    BY DEF Last
  <2>2. wanted \in {"on", "off"}
    BY <1>1 DEF TypeOK
  <2> QED BY <1>1, <1>2, <2>1, <2>2 DEF SwitchInv, IsOn, IsOff, Down
<1> QED BY <1>1, <1>3, <1>4, <1>5
=============================================================================
