-------------------------- MODULE Isolation_proofs ---------------------------
(***************************************************************************)
(* Proofs about what isolates a build, for every recipe, any number of      *)
(* calls, events and kills, and every interleaving of the processes.        *)
(*                                                                          *)
(* Sandbox: caller, supervisor, process 1 and the steps' processes know of  *)
(* each other only by pipes, exit codes and a file.  The invariant relates  *)
(* where they are (Places, Processes), counts the halves of frames that are *)
(* written, on their way or read (Stream), and says who failed first and    *)
(* what the report file holds (Blamed) and what the caller may conclude     *)
(* (Concluded).  Counting halves is what makes the end of a run decidable:  *)
(* a run that ends well has written 4 of them per step, so nothing is left  *)
(* in the pipe once the caller has drained it.                              *)
(*                                                                          *)
(* Namespace runtime: what is on its way in the pipe of a call, with what   *)
(* has been handed on, is what its function has emitted (Frames); a thread  *)
(* that has an answer has taken the last frame.                             *)
(***************************************************************************)
EXTENDS Sandbox, NamespaceRuntime, TLAPS

----------------------------------------------------------------------------
(* The invariant *)

AllDirs == {"workspace"} \cup (IF PlainObject THEN {"out"} ELSE {})
Early == {"open", "workspace", "prepare", "check"}
Undecided == Early \cup {"spawning", "recheck", "ready", "drain", "wait", "poll", "final", "capture"}
Ended == {"zap", "zombie", "gone"}
Failures == {"sweep", "end", "ending", "report", "reporting", "finish"}

\* Process 1 has come to its end without an error.
Success == init = "gone" /\ initCode = 0

\* Where the processes are when the caller is where it is.
Places ==
  /\ pc \in Early => sup = "none"
  /\ sup = "none" => pc \in Early \cup {"cleanup", "done", "dead"}
  /\ pc \in {"stderr", "drained", "cleanup", "done"} => SupEnded
  /\ pc \in {"final", "capture"} => sup = "gone"
  /\ sup \in {"none", "fork", "config", "handshake", "setup"} => init = "none"
  /\ SupEnded /\ supCode # 137 => init \in {"none", "gone"}
  /\ supCode # 0 => sup \in {"zombie", "gone"}
  /\ sup \in {"setup", "wait"} \/ init # "none" => handshake = "byte"
  /\ sup = "zombie" \/ pc = "final" => supCode # 0 \/ Success
  /\ pc = "capture" => Success
  /\ ~writer => pc \in {"cleanup", "done", "dead"}
  /\ initCode # 0 => init \in Failures \cup Ended
  /\ init \in {"report", "reporting"} => initCode # 0
  /\ initCode = 0 /\ init \in {"finish"} \cup Ended => step = NumSteps
  /\ init \in {"none", "born", "mount", "runner", "prepare"} => step = 1
  /\ init = "next" => step < NumSteps

\* What has become of the processes of the steps.
Processes ==
  /\ \A i \in Steps :
       /\ i < step => main[i] = "ok" /\ stray[i] # "alive"
       /\ i > step => main[i] = "none"
       /\ main[i] = "none" => stray[i] = "none"
       /\ InitEnded => ~Running(i)
  /\ init \in {"none", "born", "mount", "runner", "prepare", "start", "starting", "spawn"} => main[step] = "none"
  /\ init \in Failures \cup {"next"} => main[step] \in {"none", "ok", "failed"}
  /\ init \in (Failures \cup {"next"}) \ {"sweep"} => stray[step] # "alive"
  /\ init \in Failures \cup Ended \cup {"next"} /\ initCode = 0 => main[step] = "ok"

\* The parts of frames written so far, with what the caller has read of them.
Total == 2 * Len(emitted) + Len(Parts)
FailedEvent == [kind |-> "failed", index |-> step]
Fits(j, e) ==
  j \in 1..(2 * NumSteps) /\ (e = Full[j] \/ (initCode # 0 /\ j = 2 * step /\ e = FailedEvent))
Finished(i) == [kind |-> "finished", index |-> i]
Over(i) == main[i] = "ok" /\ stray[i] # "alive"
\* Nothing of the stream is lost yet.
Whole == outcome # "error" /\ ~ReaderGone
\* What has been written is what the recipe says, but for a last failure.
Fitting ==
  /\ \A k \in 1..Len(emitted) : Fits(k, emitted[k])
  /\ Whole => \A k \in 1..Len(Parts) : Fits((2 * Len(emitted) + k + 1) \div 2, Parts[k].event)
\* How much has been written, by the place of process 1.
Counted ==
  /\ Len(emitted) <= 2 * step /\ (Whole => Total <= 4 * step)
  /\ Whole /\ writer =>
      /\ init \in {"none", "born", "mount", "runner", "prepare", "start"} => Total = 4 * step - 4
      /\ init = "starting" => Total = 4 * step - 3
      /\ init \in {"spawn", "step", "sweep", "end"} => Total = 4 * step - 2
      /\ init = "ending" => Total = 4 * step - 1
      /\ init = "next" \/ (init \in {"finish"} \cup Ended /\ initCode = 0) => Total = 4 * step
\* A step that was started has been announced, one called finished is over.
Announced ==
  /\ Whole /\ writer => \A i \in Steps : main[i] # "none" => Total >= 4 * i - 2
  /\ \A i \in Steps :
       /\ \A k \in 1..Len(emitted) : emitted[k] = Finished(i) => Over(i)
       /\ Whole => \A k \in 1..Len(Parts) : Parts[k].event = Finished(i) => Over(i)
Stream ==
  /\ Fitting /\ Counted /\ Announced
  /\ pc = "capture" \/ outcome = "completed" => emitted = Full

\* Who failed first, and what the report file says: nothing until somebody
\* writes to it, and what was written of it when a write has failed.
Told == fault \in {"launcher", "runner"} /\ report = fault
Untold == fault = "report" /\ report \in {"empty", "partial"}
Blamed ==
  /\ pc = "dead" \/ handshake = "closed" => kills > 0
  /\ pc = "check" \/ sup \in {"fork", "config", "handshake", "setup"} => report = "empty"
  /\ init \notin Ended \cup {"none", "reporting", "finish"} => report = "empty"
  /\ init = "reporting" => report = "partial"
  /\ fault = "config" => report = "empty" /\ init = "none" /\ sup \in {"zombie", "gone"}
  /\ fault = "report" =>
       /\ report \in {"empty", "partial"}
       /\ init \in Ended \cup {"none", "finish"} /\ (init = "none" => sup \in {"zombie", "gone"})
  /\ kills = 0 /\ outcome = "none" =>
       /\ ~supDoomed /\ ~initDoomed
       /\ initCode = 0 /\ supCode = 0 => fault = "none"
       /\ initCode # 0 => IF init \in Failures \ {"finish"} THEN fault = "runner" ELSE Told \/ Untold
       /\ supCode # 0 => init \in {"none", "gone"} /\ (fault = "config" \/ Told \/ Untold)
  /\ explained # "none" => sup = "gone" /\ init \in Ended \cup {"none"} /\ FailureExplained

\* What the caller has concluded.
Concluded ==
  /\ pc \in Undecided => outcome = "none"
  /\ pc \in {"kill", "reap", "stderr", "drained"} => outcome \in {"cancelled", "error"}
  /\ pc = "cleanup" => outcome # "none"
  /\ outcome = "cancelled" => fifo
  /\ outcome = "completed" => pc \in {"cleanup", "done", "dead"} /\ Success /\ sup = "gone"
  /\ explained # "none" => outcome = "error"
  /\ result # "none" <=> pc = "done"
  /\ pc \in {"open", "workspace"} => dirs = {}
  /\ pc \notin {"open", "workspace", "done", "dead"} => dirs = AllDirs
  /\ result = "completed" => outcome = "completed" /\ dirs = AllDirs \cap {"out"}
  /\ result = "cancelled" => fifo /\ dirs = {}
  /\ result = "error" => outcome # "completed"
  /\ result = "error" /\ dirs # {} => handshake = "byte" /\ supCode = 137

SandboxInv == SandboxTypeOK /\ Places /\ Processes /\ Stream /\ Blamed /\ Concluded
----------------------------------------------------------------------------
(* The pipe and its reader *)

LEMMA Constants == NumSteps \in Nat \ {0} /\ Steps = 1..NumSteps /\ Full' = Full
  BY SandboxAssumption DEF Steps, Full

\* Reading yields the payloads and keeps a length without one.
LEMMA PartsKnown ==
  ASSUME SandboxTypeOK
  PROVE  /\ Parts \in Seq(Part) /\ Len(Parts) \in Nat
         /\ Decoded \in Seq(Event) /\ Len(Decoded) = Len(Parts) \div 2
         /\ \A k \in 1..(Len(Parts) \div 2) : Decoded[k] = Parts[2 * k].event
         /\ Rest \in Seq(Part) /\ Len(Rest) = Len(Parts) % 2
         /\ Len(Parts) % 2 = 1 => Rest[1] = Parts[Len(Parts)]
<1>1. Parts \in Seq(Part) /\ Len(Parts) \in Nat
  BY DEF SandboxTypeOK, Parts
<1>2. \A k \in 1..(Len(Parts) \div 2) : 2 * k \in 1..Len(Parts) /\ Parts[2 * k] \in Part
  BY <1>1
<1>3. \A k \in 1..(Len(Parts) \div 2) : Parts[2 * k].event \in Event
  BY <1>2 DEF Part
<1>4. Decoded \in [1..(Len(Parts) \div 2) -> Event] /\ Len(Parts) \div 2 \in Nat
  BY <1>1, <1>3 DEF Decoded
<1>5. Decoded \in Seq(Event) /\ Len(Decoded) = Len(Parts) \div 2
  BY <1>4
<1>6. Len(Parts) % 2 \in {0, 1}
  BY <1>1
<1>7. Len(Parts) % 2 = 1 => Len(Parts) \in 1..Len(Parts)
  BY <1>1
<1>8. Rest \in Seq(Part) /\ Len(Rest) = Len(Parts) % 2
  BY <1>1, <1>6, <1>7 DEF Rest
<1> QED
  BY <1>1, <1>5, <1>8 DEF Decoded, Rest

LEMMA Drained ==
  ASSUME SandboxTypeOK, DrainEvents
  PROVE  /\ emitted' \in Seq(Event) /\ decoder' \in Seq(Part) /\ pipe' \in Seq(Part)
         /\ Len(emitted') = Len(emitted) + Len(Parts) \div 2
         /\ \A k \in 1..Len(emitted) : emitted'[k] = emitted[k]
         /\ \A k \in 1..(Len(Parts) \div 2) : emitted'[Len(emitted) + k] = Parts[2 * k].event
         /\ Len(Parts') = Len(Parts) % 2
         /\ Len(Parts) % 2 = 1 => Parts'[1] = Parts[Len(Parts)]
<1>1. emitted \in Seq(Event) /\ emitted' = emitted \o Decoded /\ decoder' = Rest /\ pipe' = <<>>
  BY DEF SandboxTypeOK, DrainEvents
<1>2. Parts' = Rest
  BY <1>1, PartsKnown DEF Parts
<1>3. emitted' = emitted \o Decoded /\ emitted \in Seq(Event) /\ Decoded \in Seq(Event)
  BY <1>1, PartsKnown
<1>4. Len(emitted') = Len(emitted) + Len(Decoded)
  BY <1>3
<1>5. emitted' \in Seq(Event) /\ \A k \in 1..Len(emitted) : emitted'[k] = emitted[k]
  BY <1>3
<1>6. \A k \in 1..Len(Decoded) : emitted'[Len(emitted) + k] = Decoded[k]
  BY <1>3
<1>7. decoder' \in Seq(Part) /\ pipe' \in Seq(Part)
  BY <1>1, PartsKnown
<1> QED
  BY <1>2, <1>3, <1>4, <1>5, <1>6, <1>7, PartsKnown

\* When handing an event on fails, it and those after it are lost.
LEMMA DrainedInVain ==
  ASSUME SandboxTypeOK, EmitFails
  PROVE  /\ emitted' \in Seq(Event) /\ decoder' \in Seq(Part) /\ pipe' \in Seq(Part)
         /\ Len(emitted') >= Len(emitted)
         /\ Len(emitted') < Len(emitted) + Len(Parts) \div 2
         /\ \A k \in 1..Len(emitted) : emitted'[k] = emitted[k]
         /\ \A k \in 1..(Len(emitted') - Len(emitted)) : emitted'[Len(emitted) + k] = Parts[2 * k].event
<1>1. emitted \in Seq(Event) /\ Decoded \in Seq(Event) /\ Len(Decoded) = Len(Parts) \div 2
  BY PartsKnown DEF SandboxTypeOK
<1>0. PICK lost \in 1..Len(Decoded) : emitted' = emitted \o SubSeq(Decoded, 1, lost - 1)
  BY DEF EmitFails
<1> DEFINE kept == SubSeq(Decoded, 1, lost - 1)
<1>2. kept \in Seq(Event) /\ Len(kept) = lost - 1 /\ \A k \in 1..Len(kept) : kept[k] = Decoded[k]
  BY <1>0, <1>1
<1>3. emitted' = emitted \o kept
  BY <1>0
<1> HIDE DEF kept
<1>6. decoder' \in Seq(Part) /\ pipe' \in Seq(Part)
  BY PartsKnown DEF EmitFails
<1>4. /\ Len(emitted') = Len(emitted) + Len(kept)
      /\ \A k \in 1..Len(kept) : emitted'[Len(emitted) + k] = kept[k]
  <2>1. emitted \in Seq(Event) /\ kept \in Seq(Event) /\ emitted' = emitted \o kept
    BY <1>1, <1>2, <1>3
  <2>2. Len(emitted') = Len(emitted) + Len(kept)
    BY <2>1
  <2>3. \A k \in 1..Len(kept) : emitted'[Len(emitted) + k] = kept[k]
    BY <2>1
  <2> QED BY <2>2, <2>3
<1>5. emitted' \in Seq(Event) /\ \A k \in 1..Len(emitted) : emitted'[k] = emitted[k]
  BY <1>1, <1>2, <1>3
<1>7. Len(emitted) \in Nat /\ Len(kept) \in Nat /\ Len(kept) < Len(Parts) \div 2 /\ Len(emitted') - Len(emitted) = Len(kept)
  BY <1>0, <1>1, <1>2, <1>4
<1>8. \A k \in 1..Len(kept) : k \in 1..(Len(Parts) \div 2) /\ kept[k] = Decoded[k]
  BY <1>0, <1>1, <1>2
<1>9. \A k \in 1..Len(kept) : emitted'[Len(emitted) + k] = Parts[2 * k].event
  BY <1>4, <1>8, PartsKnown
<1> QED
  BY <1>4, <1>5, <1>6, <1>7, <1>9

LEMMA Appended ==
  ASSUME SandboxTypeOK, NEW p \in Part, pipe' = Append(pipe, p), decoder' = decoder
  PROVE  /\ pipe' \in Seq(Part)
         /\ Len(Parts') = Len(Parts) + 1
         /\ \A k \in 1..Len(Parts) : Parts'[k] = Parts[k]
         /\ Parts'[Len(Parts) + 1] = p
  BY DEF SandboxTypeOK, Parts

----------------------------------------------------------------------------
(* Writing and reading keep the stream *)

LEMMA EmitTypes ==
  ASSUME SandboxTypeOK, NEW from, NEW to, NEW e \in Event, NEW half \in {"length", "payload"},
         Emit(from, to, e, half)
  PROVE  pipe' \in Seq(Part) /\ writer' \in BOOLEAN
<1>1. [event |-> e, half |-> half] \in Part
  BY DEF Part
<1>2. CASE writer'
  <2>1. pipe' = Append(pipe, [event |-> e, half |-> half])
    BY <1>2 DEF Emit
  <2> QED BY <1>1, <2>1 DEF SandboxTypeOK, Emit
<1>3. CASE ~writer'
  BY <1>3 DEF Emit, SandboxTypeOK
<1> QED BY <1>2, <1>3

\* Process 1 writes the next part: the event of that place in the stream.
LEMMA EmitFits ==
  ASSUME SandboxInv, NEW from, NEW to, NEW e \in Event, NEW half \in {"length", "payload"},
         Emit(from, to, e, half),
         Whole /\ writer => Fits((Total + 2) \div 2, e),
         NEW i \in Steps, e = Finished(i) => Over(i),
         \A j \in Steps : e = Finished(j) => j = i
  PROVE  /\ Fitting' /\ Announced'
         /\ emitted' = emitted /\ (Whole' <=> Whole)
         /\ \/ writer /\ writer' /\ Total' = Total + 1
            \/ ~writer' /\ Total' = Total
<1> DEFINE p == [event |-> e, half |-> half]
<1>1. SandboxTypeOK /\ Fitting /\ Announced /\ p \in Part
  BY DEF SandboxInv, Stream, Part
<1>2. /\ emitted' = emitted /\ decoder' = decoder /\ step' = step /\ initCode' = initCode
      /\ main' = main /\ stray' = stray /\ outcome' = outcome /\ pc' = pc
  BY DEF Emit, NoSup, callerVars, procVars
<1>3. /\ \A j, x : Fits(j, x)' <=> Fits(j, x)
      /\ \A j : Over(j)' <=> Over(j)
      /\ Whole' <=> Whole
  BY <1>2, Constants DEF Fits, Over, Whole, FailedEvent, ReaderGone
<1>4. Len(emitted) \in Nat /\ Len(Parts) \in Nat
  BY <1>1, PartsKnown DEF SandboxTypeOK
<1>5. CASE ~writer'
  <2>1. Parts' = Parts
    BY <1>2, <1>5 DEF Emit, Parts
  <2>2. Fitting'
    BY <1>1, <1>2, <1>3, <2>1 DEF Fitting
  <2>3. Announced'
    BY <1>1, <1>2, <1>3, <1>5, <2>1 DEF Announced, Finished
  <2>4. Total' = Total
    BY <1>2, <2>1 DEF Total
  <2> QED BY <1>2, <1>3, <1>5, <2>2, <2>3, <2>4
<1>6. CASE writer'
  <2>1. writer /\ pipe' = Append(pipe, p)
    BY <1>6 DEF Emit
  <2>2. /\ Len(Parts') = Len(Parts) + 1
        /\ \A k \in 1..Len(Parts) : Parts'[k] = Parts[k]
        /\ Parts'[Len(Parts) + 1].event = e
    BY <1>1, <1>2, <2>1, Appended
  <2>3. Total' = Total + 1 /\ Total \in Nat
    BY <1>2, <1>4, <2>2 DEF Total
  <2>4. Fitting'
    <3>1. ASSUME Whole, NEW k \in 1..Len(Parts')
          PROVE  Fits((2 * Len(emitted) + k + 1) \div 2, Parts'[k].event)
      <4>1. CASE k \in 1..Len(Parts)
        BY <1>1, <2>2, <3>1, <4>1 DEF Fitting
      <4>2. CASE k = Len(Parts) + 1
        <5>1. (2 * Len(emitted) + k + 1) \div 2 = (Total + 2) \div 2
          BY <1>4, <4>2 DEF Total
        <5> QED BY <2>1, <2>2, <3>1, <4>2, <5>1
      <4> QED BY <1>4, <2>2, <4>1, <4>2
    <3> QED BY <1>1, <1>2, <1>3, <3>1 DEF Fitting
  <2>5. Announced'
    <3>1. ASSUME Whole, NEW j \in Steps, NEW k \in 1..Len(Parts'), Parts'[k].event = Finished(j)
          PROVE  Over(j)
      <4>1. CASE k \in 1..Len(Parts)
        BY <1>1, <2>2, <3>1, <4>1 DEF Announced
      <4>2. CASE k = Len(Parts) + 1
        BY <2>2, <3>1, <4>2
      <4> QED BY <1>4, <2>2, <4>1, <4>2
    <3>2. ASSUME Whole, NEW j \in Steps, main[j] # "none" PROVE Total' >= 4 * j - 2
      <4>1. Total >= 4 * j - 2 /\ j \in Nat
        BY <1>1, <2>1, <3>2, Constants DEF Announced
      <4> QED BY <2>3, <4>1
    <3>3. \A j \in Steps : \A k \in 1..Len(emitted) : emitted[k] = Finished(j) => Over(j)
      BY <1>1 DEF Announced
    <3> QED BY <1>2, <1>3, <3>1, <3>2, <3>3 DEF Announced, Finished
  <2> QED BY <1>2, <1>3, <1>6, <2>1, <2>3, <2>4, <2>5
<1> QED BY <1>5, <1>6

\* Reading moves what is written from one place to the other.
LEMMA DrainFits ==
  ASSUME SandboxInv, DrainEvents, UNCHANGED <<initVars, procVars>>, Whole
  PROVE  Fitting' /\ Counted' /\ Announced' /\ (Whole' => Total' = Total)
<1>1. SandboxTypeOK /\ Fitting /\ Counted /\ Announced
  BY DEF SandboxInv, Stream
<1>2. /\ step' = step /\ initCode' = initCode /\ init' = init /\ writer' = writer
      /\ main' = main /\ stray' = stray
  BY DEF initVars, procVars
<1>3. /\ \A j, x : Fits(j, x)' <=> Fits(j, x)
      /\ \A j : Over(j)' <=> Over(j)
  BY <1>2, Constants DEF Fits, Over, FailedEvent
<1>4. Len(emitted) \in Nat /\ Len(Parts) \in Nat
  BY <1>1, PartsKnown DEF SandboxTypeOK
<1>5. /\ Len(emitted') = Len(emitted) + Len(Parts) \div 2
      /\ Len(Parts') = Len(Parts) % 2
  BY <1>1, Drained
<1>6. Total' = Total
  BY <1>4, <1>5 DEF Total
<1>7. ASSUME NEW k \in 1..Len(emitted')
      PROVE  \/ k \in 1..Len(emitted) /\ emitted'[k] = emitted[k]
             \/ \E m \in 1..Len(Parts) : emitted'[k] = Parts[m].event /\ (2 * Len(emitted) + m + 1) \div 2 = k
  <2>1. CASE k \in 1..Len(emitted)
    BY <1>1, <2>1, Drained
  <2>2. CASE k \notin 1..Len(emitted)
    <3>1. k - Len(emitted) \in 1..(Len(Parts) \div 2)
      BY <1>4, <1>5, <2>2
    <3>2. emitted'[Len(emitted) + (k - Len(emitted))] = Parts[2 * (k - Len(emitted))].event
      BY <1>1, <3>1, Drained
    <3>3. Len(emitted) + (k - Len(emitted)) = k
      BY <1>4, <1>5
    <3>4. /\ 2 * (k - Len(emitted)) \in 1..Len(Parts)
          /\ (2 * Len(emitted) + 2 * (k - Len(emitted)) + 1) \div 2 = k
      BY <1>4, <1>5, <3>1
    <3> QED BY <3>2, <3>3, <3>4
  <2> QED BY <2>1, <2>2
<1>8. ASSUME NEW k \in 1..Len(Parts')
      PROVE  /\ Len(Parts) \in 1..Len(Parts) /\ Parts'[k] = Parts[Len(Parts)]
             /\ (2 * Len(emitted') + k + 1) \div 2 = (2 * Len(emitted) + Len(Parts) + 1) \div 2
  <2>1. Len(Parts) % 2 = 1 /\ k = 1
    BY <1>4, <1>5
  <2>2. Parts'[k] = Parts[Len(Parts)]
    BY <1>1, <2>1, Drained
  <2>3. Len(Parts) = 2 * (Len(Parts) \div 2) + 1 /\ Len(Parts) \div 2 \in Nat
    BY <1>4, <2>1
  <2>4. 2 * Len(emitted') + k + 1 = 2 * Len(emitted) + Len(Parts) + 1
    BY <1>4, <1>5, <2>1, <2>3
  <2> QED BY <1>4, <2>2, <2>3, <2>4
<1>9. Fitting'
  BY <1>1, <1>3, <1>7, <1>8 DEF Fitting
<1>10. Counted'
  <2>1. step \in Nat
    BY <1>1, Constants DEF SandboxTypeOK
  <2>2. Total <= 4 * step
    BY <1>1, <1>3 DEF Counted
  <2>3. Len(emitted') <= 2 * step
    BY <1>4, <1>5, <2>1, <2>2 DEF Total
  <2> QED BY <1>1, <1>2, <1>3, <1>6, <2>2, <2>3 DEF Counted
<1>11. Announced'
  BY <1>1, <1>2, <1>3, <1>6, <1>7, <1>8 DEF Announced, Finished
<1> QED BY <1>6, <1>9, <1>10, <1>11

LEMMA DrainInVainFits ==
  ASSUME SandboxInv, EmitFails, UNCHANGED <<initVars, procVars>>, Whole, ~Whole'
  PROVE  Fitting' /\ Counted' /\ Announced'
<1>1. SandboxTypeOK /\ Fitting /\ Announced /\ Counted
  BY DEF SandboxInv, Stream
<1>2. step' = step /\ initCode' = initCode /\ main' = main /\ stray' = stray
  BY DEF initVars, procVars
<1>3. /\ \A j, x : Fits(j, x)' <=> Fits(j, x)
      /\ \A j : Over(j)' <=> Over(j)
  BY <1>2, Constants DEF Fits, Over, FailedEvent
<1>4. Len(emitted) \in Nat /\ Len(Parts) \in Nat
  BY <1>1, PartsKnown DEF SandboxTypeOK
<1>5. /\ Len(emitted') \in Nat /\ Len(emitted') >= Len(emitted)
      /\ Len(emitted') < Len(emitted) + Len(Parts) \div 2
  BY <1>1, DrainedInVain
<1>6. ASSUME NEW k \in 1..Len(emitted')
      PROVE  \/ k \in 1..Len(emitted) /\ emitted'[k] = emitted[k]
             \/ \E m \in 1..Len(Parts) : emitted'[k] = Parts[m].event /\ (2 * Len(emitted) + m + 1) \div 2 = k
  <2>1. CASE k \in 1..Len(emitted)
    BY <1>1, <2>1, DrainedInVain
  <2>2. CASE k \notin 1..Len(emitted)
    <3>1. k - Len(emitted) \in 1..(Len(emitted') - Len(emitted))
      BY <1>4, <1>5, <2>2
    <3>2. emitted'[Len(emitted) + (k - Len(emitted))] = Parts[2 * (k - Len(emitted))].event
      BY <1>1, <3>1, DrainedInVain
    <3>3. Len(emitted) + (k - Len(emitted)) = k
      BY <1>4, <1>5
    <3>4. 2 * (k - Len(emitted)) \in 1..Len(Parts)
      BY <1>4, <1>5, <3>1
    <3>5. k \in Nat /\ 2 * Len(emitted) + 2 * (k - Len(emitted)) + 1 = 2 * k + 1
      BY <1>4, <1>5
    <3>6. (2 * k + 1) \div 2 = k
      BY <3>5
    <3> QED BY <3>2, <3>3, <3>4, <3>5, <3>6
  <2> QED BY <2>1, <2>2
<1>7. Fitting'
  BY <1>1, <1>3, <1>6 DEF Fitting
<1>8. Counted'
  <2>1. step \in Nat
    BY <1>1, Constants DEF SandboxTypeOK
  <2>2. Total <= 4 * step
    BY <1>1, <1>3 DEF Counted
  <2>3. Len(emitted') <= 2 * step
    BY <1>4, <1>5, <2>1, <2>2 DEF Total
  <2> QED BY <1>2, <1>3, <2>3 DEF Counted
<1>9. Announced'
  BY <1>1, <1>3, <1>6 DEF Announced, Finished
<1> QED BY <1>7, <1>8, <1>9

\* The four writes of a step, in the order of the stream.
LEMMA WritingKept ==
  ASSUME SandboxInv, EmitStarted \/ EmitStartedPayload \/ EmitEnd \/ EmitEndPayload
  PROVE  Fitting' /\ Counted' /\ Announced'
<1>1. /\ SandboxTypeOK /\ Places /\ Processes /\ Counted
      /\ step \in 1..NumSteps /\ step \in Steps /\ NumSteps \in Nat /\ initCode \in Nat
  BY Constants DEF SandboxInv, Stream, SandboxTypeOK
<1>2. /\ StartEvent \in Event /\ EndEvent \in Event
      /\ \A j \in Steps : StartEvent # Finished(j)
      /\ \A j \in Steps : EndEvent = Finished(j) => j = step /\ initCode = 0
  BY <1>1 DEF StartEvent, EndEvent, Failing, Event, Kinds, Finished
<1>3. Full[2 * step - 1] = StartEvent /\ 2 * step - 1 \in 1..(2 * NumSteps)
  <2>1. 2 * step - 1 \in 1..(2 * NumSteps) /\ (2 * step - 1) % 2 = 1
    BY <1>1
  <2>2. (2 * step - 1 + 1) \div 2 = step
    BY <1>1
  <2> QED BY <2>1, <2>2 DEF Full, StartEvent
<1>4. 2 * step \in 1..(2 * NumSteps) /\ (initCode = 0 => Full[2 * step] = EndEvent)
  <2>1. 2 * step \in 1..(2 * NumSteps) /\ (2 * step) % 2 = 0
    BY <1>1
  <2>2. (2 * step + 1) \div 2 = step
    BY <1>1
  <2> QED BY <2>1, <2>2 DEF Full, EndEvent, Failing
<1>5. Fits(2 * step - 1, StartEvent) /\ Fits(2 * step, EndEvent)
  BY <1>3, <1>4 DEF Fits, EndEvent, Failing, FailedEvent
<1>6. step' = step /\ initCode' = initCode
  BY DEF EmitStarted, EmitStartedPayload, EmitEnd, EmitEndPayload, Emit
<1>7. CASE EmitStarted
  <2>1. init = "start" /\ init' = "starting" /\ Emit("start", "starting", StartEvent, "length")
    BY <1>7 DEF EmitStarted, Emit, At
  <2>2. Whole /\ writer => Total = 4 * step - 4 /\ (Total + 2) \div 2 = 2 * step - 1
    BY <1>1, <2>1 DEF Counted
  <2>3. /\ Fitting' /\ Announced' /\ emitted' = emitted /\ (Whole' <=> Whole)
        /\ (writer /\ writer' /\ Total' = Total + 1) \/ (~writer' /\ Total' = Total)
    BY <1>1, <1>2, <1>5, <2>1, <2>2, EmitFits
  <2> QED BY <1>1, <1>6, <2>1, <2>2, <2>3 DEF Counted, Ended
<1>8. CASE EmitStartedPayload
  <2>1. init = "starting" /\ init' = "spawn" /\ Emit("starting", "spawn", StartEvent, "payload")
    BY <1>8 DEF EmitStartedPayload, Emit, At
  <2>2. Whole /\ writer => Total = 4 * step - 3 /\ (Total + 2) \div 2 = 2 * step - 1
    BY <1>1, <2>1 DEF Counted
  <2>3. /\ Fitting' /\ Announced' /\ emitted' = emitted /\ (Whole' <=> Whole)
        /\ (writer /\ writer' /\ Total' = Total + 1) \/ (~writer' /\ Total' = Total)
    BY <1>1, <1>2, <1>5, <2>1, <2>2, EmitFits
  <2> QED BY <1>1, <1>6, <2>1, <2>2, <2>3 DEF Counted, Ended
<1>9. CASE EmitEnd
  <2>1. init = "end" /\ init' = "ending" /\ Emit("end", "ending", EndEvent, "length")
    BY <1>9 DEF EmitEnd, Emit, At
  <2>2. Whole /\ writer => Total = 4 * step - 2 /\ (Total + 2) \div 2 = 2 * step
    BY <1>1, <2>1 DEF Counted
  <2>3. EndEvent = Finished(step) => Over(step)
    BY <1>1, <1>2, <2>1 DEF Processes, Failures, Over
  <2>4. /\ Fitting' /\ Announced' /\ emitted' = emitted /\ (Whole' <=> Whole)
        /\ (writer /\ writer' /\ Total' = Total + 1) \/ (~writer' /\ Total' = Total)
    BY <1>1, <1>2, <1>5, <2>1, <2>2, <2>3, EmitFits
  <2> QED BY <1>1, <1>6, <2>1, <2>2, <2>4 DEF Counted, Ended
<1>10. CASE EmitEndPayload
  <2> DEFINE to == IF Failing THEN "report" ELSE IF step < NumSteps THEN "next" ELSE "finish"
  <2>1. init = "ending" /\ init' = to /\ Emit("ending", to, EndEvent, "payload")
    BY <1>10 DEF EmitEndPayload, Emit, At
  <2>2. Whole /\ writer => Total = 4 * step - 1 /\ (Total + 2) \div 2 = 2 * step
    BY <1>1, <2>1 DEF Counted
  <2>3. EndEvent = Finished(step) => Over(step)
    BY <1>1, <1>2, <2>1 DEF Processes, Failures, Over
  <2>4. /\ Fitting' /\ Announced' /\ emitted' = emitted /\ (Whole' <=> Whole)
        /\ (writer /\ writer' /\ Total' = Total + 1) \/ (~writer' /\ Total' = Total)
    BY <1>1, <1>2, <1>5, <2>1, <2>2, <2>3, EmitFits
  <2> QED BY <1>1, <1>6, <2>1, <2>2, <2>4 DEF Counted, Ended
<1> QED BY <1>7, <1>8, <1>9, <1>10

LEMMA ReadingKept ==
  ASSUME SandboxInv, Drain \/ DrainAfterKill \/ FinalDrain
  PROVE  Fitting' /\ Counted' /\ Announced'
<1>1. UNCHANGED <<initVars, procVars>>
  BY DEF Drain, DrainAfterKill, FinalDrain
<1>2. Concluded /\ Fitting /\ Counted /\ Announced
  BY DEF SandboxInv, Stream
<1>3. CASE Drain
  <2>1. outcome = "none" /\ pc = "drain" /\ Whole
    BY <1>2, <1>3 DEF Drain, Caller, Concluded, Undecided, Whole, ReaderGone
  <2>2. CASE DrainEvents
    BY <1>1, <2>1, <2>2, DrainFits
  <2>3. CASE ~DrainEvents
    <3>1. EmitFails /\ outcome' = "error"
      BY <1>3, <2>3 DEF Drain, Conclude
    <3>2. ~Whole'
      BY <3>1 DEF Whole
    <3> QED BY <1>1, <2>1, <3>1, <3>2, DrainInVainFits
  <2> QED BY <2>2, <2>3
<1>4. CASE DrainAfterKill
  <2>0. pc = "drained" /\ pc' = "cleanup" /\ ~Whole'
    BY <1>4 DEF DrainAfterKill, Caller, Whole, ReaderGone
  <2>1. CASE outcome = "cancelled"
    <3>1. Whole
      BY <2>0, <2>1 DEF Whole, ReaderGone
    <3>2. DrainEvents \/ EmitFails
      BY <1>4, <2>1 DEF DrainAfterKill
    <3> QED BY <1>1, <2>0, <3>1, <3>2, DrainFits, DrainInVainFits
  <2>2. CASE outcome # "cancelled"
    <3>1. UNCHANGED <<emitted, decoder, pipe, outcome>>
      BY <1>4, <2>2 DEF DrainAfterKill
    <3>3. UNCHANGED <<init, initCode, step, main, stray, writer>>
      BY <1>1 DEF initVars, procVars
    <3>4. Fitting'
      BY <1>2, <2>0, <3>1, <3>3, Constants DEF Fitting, Fits, FailedEvent
    <3>5. Counted'
      BY <1>2, <2>0, <3>1, <3>3 DEF Counted
    <3>6. Announced'
      BY <1>2, <2>0, <3>1, <3>3 DEF Announced, Over, Finished
    <3> QED BY <3>4, <3>5, <3>6
  <2> QED BY <2>1, <2>2
<1>5. CASE FinalDrain
  <2>1. outcome = "none" /\ pc = "final" /\ Whole
    BY <1>2, <1>5 DEF FinalDrain, Caller, Concluded, Undecided, Whole, ReaderGone
  <2>2. CASE DrainEvents
    BY <1>1, <2>1, <2>2, DrainFits
  <2>3. CASE ~DrainEvents
    <3>1. EmitFails /\ outcome' = "error"
      BY <1>5, <2>3 DEF FinalDrain, Conclude
    <3>2. ~Whole'
      BY <3>1 DEF Whole
    <3> QED BY <1>1, <2>1, <3>1, <3>2, DrainInVainFits
  <2> QED BY <2>2, <2>3
<1> QED BY <1>3, <1>4, <1>5

\* A build is captured only when all its events have been handed on.
LEMMA AllHandedOn ==
  ASSUME SandboxInv, FinalDrain, pc' = "capture"
  PROVE  emitted' = Full
<1>1. /\ SandboxTypeOK /\ Places /\ Counted /\ Fitting
      /\ step \in 1..NumSteps /\ NumSteps \in Nat
  BY Constants DEF SandboxInv, Stream, SandboxTypeOK
<1>2. DrainEvents /\ Rest = <<>> /\ supCode = 0 /\ pc = "final" /\ outcome = "none"
  BY DEF FinalDrain, Caller, SandboxInv, Concluded, Undecided
<1>3. Success /\ step = NumSteps /\ writer /\ Whole
  BY <1>1, <1>2 DEF Places, Success, Ended, Whole, ReaderGone
<1>4. Total = 4 * NumSteps
  BY <1>1, <1>3 DEF Counted, Success, Ended
<1>5. Len(emitted) \in Nat /\ Len(Parts) \in Nat /\ Len(Parts) % 2 = 0
  BY <1>1, <1>2, PartsKnown DEF SandboxTypeOK
<1>6. Len(emitted') = 2 * NumSteps /\ emitted' \in Seq(Event)
  <2>1. Len(emitted') = Len(emitted) + Len(Parts) \div 2 /\ emitted' \in Seq(Event)
    BY <1>1, <1>2, Drained
  <2>2. 2 * Len(emitted) + Len(Parts) = 4 * NumSteps
    BY <1>4 DEF Total
  <2>3. Len(Parts) = 2 * (Len(Parts) \div 2) /\ Len(Parts) \div 2 \in Nat
    BY <1>5
  <2> QED BY <1>1, <1>5, <2>1, <2>2, <2>3
<1>7. Fitting' /\ initCode' = 0
  BY <1>3, ReadingKept DEF FinalDrain, initVars, Success
<1>8. \A k \in 1..(2 * NumSteps) : emitted'[k] = Full[k]
  BY <1>6, <1>7, Constants DEF Fitting, Fits
<1> QED BY <1>6, <1>8 DEF Full

----------------------------------------------------------------------------
(* Every step keeps the invariant.  The parts of the invariant are taken    *)
(* one at a time, and for each of them the steps in the order of the module. *)

Numbers ==
  /\ NumSteps \in Nat \ {0} /\ step \in 1..NumSteps /\ writer \in BOOLEAN
  /\ initCode \in Nat /\ supCode \in Nat /\ kills \in Nat
LEMMA NumbersKnown == ASSUME SandboxTypeOK PROVE Numbers
  BY SandboxAssumption DEF Numbers, SandboxTypeOK, Steps

\* Where the processes are.
LEMMA PlacesKept ==
  ASSUME Numbers, Places, Concluded, SandboxNext PROVE Places'
<1> USE DEF Caller, Conclude, Sup, SupExit, At, InitExit, NoCaller, NoSup, NoInit,
         callerVars, supVars, initVars, procVars, SupEnded, InitEnded, Numbers, Places,
         Concluded, Undecided, Early, Success, Failures, Ended
<1>1. CASE OpenCancellation
  BY <1>1 DEF OpenCancellation
<1>2. CASE CreateDirs
  BY <1>2 DEF CreateDirs
<1>3. CASE Prepare
  BY <1>3 DEF Prepare
<1>4. CASE SpawnLauncher
  BY <1>4 DEF SpawnLauncher
<1>5. CASE SpawnReturns
  BY <1>5 DEF SpawnReturns
<1>6. CASE Recheck
  BY <1>6 DEF Recheck
<1>7. CASE WriteHandshake
  BY <1>7 DEF WriteHandshake
<1>8. CASE Drain
  BY <1>8 DEF Drain
<1>9. CASE TryWait
  BY <1>9 DEF TryWait
<1>10. CASE Poll
  BY <1>10 DEF Poll
<1>11. CASE Kill
  BY <1>11 DEF Kill
<1>12. CASE Reap
  BY <1>12 DEF Reap
<1>13. CASE ReadStderr
  BY <1>13 DEF ReadStderr
<1>14. CASE DrainAfterKill
  BY <1>14 DEF DrainAfterKill
<1>15. CASE FinalDrain
  BY <1>15 DEF FinalDrain
<1>16. CASE Capture
  BY <1>16 DEF Capture
<1>17. CASE Cleanup
  BY <1>17 DEF Cleanup
<1>18. CASE PreExec
  BY <1>18 DEF PreExec
<1>19. CASE ReadConfig
  BY <1>19 DEF ReadConfig
<1>20. CASE ReadHandshake
  BY <1>20 DEF ReadHandshake
<1>21. CASE ForkInit
  BY <1>21 DEF ForkInit
<1>22. CASE WaitForChild
  BY <1>22 DEF WaitForChild
<1>23. CASE Guard
  BY <1>23 DEF Guard
<1>24. CASE Mount
  BY <1>24 DEF Mount
<1>25. CASE StartRunner
  BY <1>25 DEF StartRunner
<1>26. CASE PreparePaths
  BY <1>26 DEF PreparePaths
<1>27. CASE EmitStarted
  BY <1>27 DEF EmitStarted, Emit, ReaderGone
<1>28. CASE EmitStartedPayload
  BY <1>28 DEF EmitStartedPayload, Emit, ReaderGone
<1>29. CASE SpawnStep
  BY <1>29 DEF SpawnStep
<1>30. CASE WaitStep
  BY <1>30 DEF WaitStep
<1>31. CASE Sweep
  BY <1>31 DEF Sweep
<1>32. CASE EmitEnd
  BY <1>32 DEF EmitEnd, Emit, ReaderGone
<1>33. CASE EmitEndPayload
  BY <1>33 DEF EmitEndPayload, Emit, ReaderGone, Failing
<1>34. CASE NextStep
  BY <1>34 DEF NextStep
<1>35. CASE WriteFailure
  BY <1>35 DEF WriteFailure
<1>36. CASE Finish
  BY <1>36 DEF Finish
<1>37. CASE SupDies
  BY <1>37 DEF SupDies
<1>38. CASE InitDies
  BY <1>38 DEF InitDies
<1>39. CASE Zap
  BY <1>39 DEF Zap
<1>40. CASE ReapedByHost
  BY <1>40 DEF ReapedByHost
<1>41. ASSUME NEW i \in Steps, ProcessDies(i) PROVE Places'
  BY <1>41 DEF ProcessDies
<1>42. ASSUME NEW i \in Steps, StepForks(i) PROVE Places'
  BY <1>42 DEF StepForks
<1>43. ASSUME NEW i \in Steps, StepExits(i) PROVE Places'
  BY <1>43 DEF StepExits
<1>44. CASE Cancel
  BY <1>44 DEF Cancel
<1>45. CASE OutsideKill
  BY <1>45 DEF OutsideKill
<1>46. CASE CallerDies
  BY <1>46 DEF CallerDies
<1> QED BY <1>1, <1>2, <1>3, <1>4, <1>5, <1>6, <1>7, <1>8, <1>9, <1>10, <1>11, <1>12, <1>13,
         <1>14, <1>15, <1>16, <1>17, <1>18, <1>19, <1>20, <1>21, <1>22, <1>23, <1>24, <1>25,
         <1>26, <1>27, <1>28, <1>29, <1>30, <1>31, <1>32, <1>33, <1>34, <1>35, <1>36, <1>37,
         <1>38, <1>39, <1>40, <1>41, <1>42, <1>43, <1>44, <1>45, <1>46
       DEF SandboxNext, CallerStep, SupStep, InitStep, Kernel

\* The processes of the steps.
LEMMA ProcessesKept ==
  ASSUME SandboxTypeOK, Numbers, Places, Processes, SandboxNext PROVE Processes'
<1> USE DEF Caller, Conclude, Sup, SupExit, At, InitExit, NoCaller, NoSup, NoInit,
         callerVars, supVars, initVars, procVars, SupEnded, InitEnded, Numbers, Places,
         Processes, Steps, Running, SandboxTypeOK, Failures, Ended, Success
<1>1. CASE OpenCancellation
  BY <1>1 DEF OpenCancellation
<1>2. CASE CreateDirs
  BY <1>2 DEF CreateDirs
<1>3. CASE Prepare
  BY <1>3 DEF Prepare
<1>4. CASE SpawnLauncher
  BY <1>4 DEF SpawnLauncher
<1>5. CASE SpawnReturns
  BY <1>5 DEF SpawnReturns
<1>6. CASE Recheck
  BY <1>6 DEF Recheck
<1>7. CASE WriteHandshake
  BY <1>7 DEF WriteHandshake
<1>8. CASE Drain
  BY <1>8 DEF Drain
<1>9. CASE TryWait
  BY <1>9 DEF TryWait
<1>10. CASE Poll
  BY <1>10 DEF Poll
<1>11. CASE Kill
  BY <1>11 DEF Kill
<1>12. CASE Reap
  BY <1>12 DEF Reap
<1>13. CASE ReadStderr
  BY <1>13 DEF ReadStderr
<1>14. CASE DrainAfterKill
  BY <1>14 DEF DrainAfterKill
<1>15. CASE FinalDrain
  BY <1>15 DEF FinalDrain
<1>16. CASE Capture
  BY <1>16 DEF Capture
<1>17. CASE Cleanup
  BY <1>17 DEF Cleanup
<1>18. CASE PreExec
  BY <1>18 DEF PreExec
<1>19. CASE ReadConfig
  BY <1>19 DEF ReadConfig
<1>20. CASE ReadHandshake
  BY <1>20 DEF ReadHandshake
<1>21. CASE ForkInit
  BY <1>21 DEF ForkInit
<1>22. CASE WaitForChild
  BY <1>22 DEF WaitForChild
<1>23. CASE Guard
  BY <1>23 DEF Guard
<1>24. CASE Mount
  BY <1>24 DEF Mount
<1>25. CASE StartRunner
  BY <1>25 DEF StartRunner
<1>26. CASE PreparePaths
  BY <1>26 DEF PreparePaths
<1>27. CASE EmitStarted
  BY <1>27 DEF EmitStarted, Emit, ReaderGone
<1>28. CASE EmitStartedPayload
  BY <1>28 DEF EmitStartedPayload, Emit, ReaderGone
<1>29. CASE SpawnStep
  BY <1>29 DEF SpawnStep
<1>30. CASE WaitStep
  BY <1>30 DEF WaitStep
<1>31. CASE Sweep
  BY <1>31 DEF Sweep, Doom
<1>32. CASE EmitEnd
  BY <1>32 DEF EmitEnd, Emit, ReaderGone
<1>33. CASE EmitEndPayload
  BY <1>33 DEF EmitEndPayload, Emit, ReaderGone, Failing
<1>34. CASE NextStep
  BY <1>34 DEF NextStep
<1>35. CASE WriteFailure
  BY <1>35 DEF WriteFailure
<1>36. CASE Finish
  BY <1>36 DEF Finish, Doom
<1>37. CASE SupDies
  BY <1>37 DEF SupDies
<1>38. CASE InitDies
  BY <1>38 DEF InitDies
<1>39. CASE Zap
  BY <1>39 DEF Zap, Doom, Busy
<1>40. CASE ReapedByHost
  BY <1>40 DEF ReapedByHost
<1>41. ASSUME NEW i \in Steps, ProcessDies(i) PROVE Processes'
  BY <1>41 DEF ProcessDies
<1>42. ASSUME NEW i \in Steps, StepForks(i) PROVE Processes'
  BY <1>42 DEF StepForks
<1>43. ASSUME NEW i \in Steps, StepExits(i) PROVE Processes'
  BY <1>43 DEF StepExits
<1>44. CASE Cancel
  BY <1>44 DEF Cancel
<1>45. CASE OutsideKill
  BY <1>45 DEF OutsideKill
<1>46. CASE CallerDies
  BY <1>46 DEF CallerDies
<1> QED BY <1>1, <1>2, <1>3, <1>4, <1>5, <1>6, <1>7, <1>8, <1>9, <1>10, <1>11, <1>12, <1>13,
         <1>14, <1>15, <1>16, <1>17, <1>18, <1>19, <1>20, <1>21, <1>22, <1>23, <1>24, <1>25,
         <1>26, <1>27, <1>28, <1>29, <1>30, <1>31, <1>32, <1>33, <1>34, <1>35, <1>36, <1>37,
         <1>38, <1>39, <1>40, <1>41, <1>42, <1>43, <1>44, <1>45, <1>46
       DEF SandboxNext, CallerStep, SupStep, InitStep, Kernel

\* The first fault and the report.
LEMMA BlamedKept ==
  ASSUME Numbers, Places, Concluded, Blamed, SandboxNext PROVE Blamed'
<1> USE DEF Caller, Conclude, Sup, SupExit, At, InitExit, NoCaller, NoSup, NoInit,
         callerVars, supVars, initVars, procVars, SupEnded, InitEnded, Numbers, Places,
         Concluded, Blamed, Told, Untold, Blame, LauncherReport, FailureExplained, Undecided, Early, Success, Failures,
         Ended
<1>1. CASE OpenCancellation
  BY <1>1 DEF OpenCancellation
<1>2. CASE CreateDirs
  BY <1>2 DEF CreateDirs
<1>3. CASE Prepare
  BY <1>3 DEF Prepare
<1>4. CASE SpawnLauncher
  BY <1>4 DEF SpawnLauncher
<1>5. CASE SpawnReturns
  BY <1>5 DEF SpawnReturns
<1>6. CASE Recheck
  BY <1>6 DEF Recheck
<1>7. CASE WriteHandshake
  BY <1>7 DEF WriteHandshake
<1>8. CASE Drain
  BY <1>8 DEF Drain
<1>9. CASE TryWait
  BY <1>9 DEF TryWait
<1>10. CASE Poll
  BY <1>10 DEF Poll
<1>11. CASE Kill
  BY <1>11 DEF Kill
<1>12. CASE Reap
  BY <1>12 DEF Reap
<1>13. CASE ReadStderr
  BY <1>13 DEF ReadStderr
<1>14. CASE DrainAfterKill
  BY <1>14 DEF DrainAfterKill
<1>15. CASE FinalDrain
  BY <1>15 DEF FinalDrain, EventEof
<1>16. CASE Capture
  BY <1>16 DEF Capture
<1>17. CASE Cleanup
  BY <1>17 DEF Cleanup
<1>18. CASE PreExec
  BY <1>18 DEF PreExec
<1>19. CASE ReadConfig
  BY <1>19 DEF ReadConfig
<1>20. CASE ReadHandshake
  BY <1>20 DEF ReadHandshake
<1>21. CASE ForkInit
  BY <1>21 DEF ForkInit
<1>22. CASE WaitForChild
  BY <1>22 DEF WaitForChild
<1>23. CASE Guard
  BY <1>23 DEF Guard
<1>24. CASE Mount
  BY <1>24 DEF Mount
<1>25. CASE StartRunner
  BY <1>25 DEF StartRunner
<1>26. CASE PreparePaths
  BY <1>26 DEF PreparePaths
<1>27. CASE EmitStarted
  BY <1>27 DEF EmitStarted, Emit, ReaderGone
<1>28. CASE EmitStartedPayload
  BY <1>28 DEF EmitStartedPayload, Emit, ReaderGone
<1>29. CASE SpawnStep
  BY <1>29 DEF SpawnStep
<1>30. CASE WaitStep
  BY <1>30 DEF WaitStep
<1>31. CASE Sweep
  BY <1>31 DEF Sweep
<1>32. CASE EmitEnd
  BY <1>32 DEF EmitEnd, Emit, ReaderGone
<1>33. CASE EmitEndPayload
  BY <1>33 DEF EmitEndPayload, Emit, ReaderGone, Failing
<1>34. CASE NextStep
  BY <1>34 DEF NextStep
<1>35. CASE WriteFailure
  BY <1>35 DEF WriteFailure
<1>36. CASE Finish
  BY <1>36 DEF Finish
<1>37. CASE SupDies
  BY <1>37 DEF SupDies
<1>38. CASE InitDies
  BY <1>38 DEF InitDies
<1>39. CASE Zap
  BY <1>39 DEF Zap
<1>40. CASE ReapedByHost
  BY <1>40 DEF ReapedByHost
<1>41. ASSUME NEW i \in Steps, ProcessDies(i) PROVE Blamed'
  BY <1>41 DEF ProcessDies
<1>42. ASSUME NEW i \in Steps, StepForks(i) PROVE Blamed'
  BY <1>42 DEF StepForks
<1>43. ASSUME NEW i \in Steps, StepExits(i) PROVE Blamed'
  BY <1>43 DEF StepExits
<1>44. CASE Cancel
  BY <1>44 DEF Cancel
<1>45. CASE OutsideKill
  BY <1>45 DEF OutsideKill
<1>46. CASE CallerDies
  BY <1>46 DEF CallerDies
<1> QED BY <1>1, <1>2, <1>3, <1>4, <1>5, <1>6, <1>7, <1>8, <1>9, <1>10, <1>11, <1>12, <1>13,
         <1>14, <1>15, <1>16, <1>17, <1>18, <1>19, <1>20, <1>21, <1>22, <1>23, <1>24, <1>25,
         <1>26, <1>27, <1>28, <1>29, <1>30, <1>31, <1>32, <1>33, <1>34, <1>35, <1>36, <1>37,
         <1>38, <1>39, <1>40, <1>41, <1>42, <1>43, <1>44, <1>45, <1>46
       DEF SandboxNext, CallerStep, SupStep, InitStep, Kernel

\* What the caller concludes.
LEMMA ConcludedKept ==
  ASSUME Numbers, Places, Processes, Concluded, SandboxNext PROVE Concluded'
<1> USE DEF Caller, Conclude, Sup, SupExit, At, InitExit, NoCaller, NoSup, NoInit,
         callerVars, supVars, initVars, procVars, SupEnded, InitEnded, Numbers, Places,
         Concluded, Undecided, Early, Success, Failures, Ended, AllDirs
<1>1. CASE OpenCancellation
  BY <1>1 DEF OpenCancellation
<1>2. CASE CreateDirs
  BY <1>2 DEF CreateDirs
<1>3. CASE Prepare
  BY <1>3 DEF Prepare
<1>4. CASE SpawnLauncher
  BY <1>4 DEF SpawnLauncher
<1>5. CASE SpawnReturns
  BY <1>5 DEF SpawnReturns
<1>6. CASE Recheck
  BY <1>6 DEF Recheck
<1>7. CASE WriteHandshake
  BY <1>7 DEF WriteHandshake
<1>8. CASE Drain
  BY <1>8 DEF Drain
<1>9. CASE TryWait
  BY <1>9 DEF TryWait
<1>10. CASE Poll
  BY <1>10 DEF Poll
<1>11. CASE Kill
  BY <1>11 DEF Kill
<1>12. CASE Reap
  BY <1>12 DEF Reap
<1>13. CASE ReadStderr
  BY <1>13 DEF ReadStderr
<1>14. CASE DrainAfterKill
  BY <1>14 DEF DrainAfterKill
<1>15. CASE FinalDrain
  BY <1>15 DEF FinalDrain
<1>16. CASE Capture
  BY <1>16 DEF Capture
<1>17. CASE Cleanup
  BY <1>17 DEF Cleanup, Processes, Kept, Busy
<1>18. CASE PreExec
  BY <1>18 DEF PreExec
<1>19. CASE ReadConfig
  BY <1>19 DEF ReadConfig
<1>20. CASE ReadHandshake
  BY <1>20 DEF ReadHandshake
<1>21. CASE ForkInit
  BY <1>21 DEF ForkInit
<1>22. CASE WaitForChild
  BY <1>22 DEF WaitForChild
<1>23. CASE Guard
  BY <1>23 DEF Guard
<1>24. CASE Mount
  BY <1>24 DEF Mount
<1>25. CASE StartRunner
  BY <1>25 DEF StartRunner
<1>26. CASE PreparePaths
  BY <1>26 DEF PreparePaths
<1>27. CASE EmitStarted
  BY <1>27 DEF EmitStarted, Emit, ReaderGone
<1>28. CASE EmitStartedPayload
  BY <1>28 DEF EmitStartedPayload, Emit, ReaderGone
<1>29. CASE SpawnStep
  BY <1>29 DEF SpawnStep
<1>30. CASE WaitStep
  BY <1>30 DEF WaitStep
<1>31. CASE Sweep
  BY <1>31 DEF Sweep
<1>32. CASE EmitEnd
  BY <1>32 DEF EmitEnd, Emit, ReaderGone
<1>33. CASE EmitEndPayload
  BY <1>33 DEF EmitEndPayload, Emit, ReaderGone, Failing
<1>34. CASE NextStep
  BY <1>34 DEF NextStep
<1>35. CASE WriteFailure
  BY <1>35 DEF WriteFailure
<1>36. CASE Finish
  BY <1>36 DEF Finish
<1>37. CASE SupDies
  BY <1>37 DEF SupDies
<1>38. CASE InitDies
  BY <1>38 DEF InitDies
<1>39. CASE Zap
  BY <1>39 DEF Zap
<1>40. CASE ReapedByHost
  BY <1>40 DEF ReapedByHost
<1>41. ASSUME NEW i \in Steps, ProcessDies(i) PROVE Concluded'
  BY <1>41 DEF ProcessDies
<1>42. ASSUME NEW i \in Steps, StepForks(i) PROVE Concluded'
  BY <1>42 DEF StepForks
<1>43. ASSUME NEW i \in Steps, StepExits(i) PROVE Concluded'
  BY <1>43 DEF StepExits
<1>44. CASE Cancel
  BY <1>44 DEF Cancel
<1>45. CASE OutsideKill
  BY <1>45 DEF OutsideKill
<1>46. CASE CallerDies
  BY <1>46 DEF CallerDies
<1> QED BY <1>1, <1>2, <1>3, <1>4, <1>5, <1>6, <1>7, <1>8, <1>9, <1>10, <1>11, <1>12, <1>13,
         <1>14, <1>15, <1>16, <1>17, <1>18, <1>19, <1>20, <1>21, <1>22, <1>23, <1>24, <1>25,
         <1>26, <1>27, <1>28, <1>29, <1>30, <1>31, <1>32, <1>33, <1>34, <1>35, <1>36, <1>37,
         <1>38, <1>39, <1>40, <1>41, <1>42, <1>43, <1>44, <1>45, <1>46
       DEF SandboxNext, CallerStep, SupStep, InitStep, Kernel

\* What the stream says.
LEMMA FittingKept ==
  ASSUME SandboxInv, SandboxNext PROVE Fitting'
<1> USE DEF Caller, Conclude, Sup, SupExit, At, InitExit, NoCaller, NoSup, NoInit,
         callerVars, supVars, initVars, procVars, SupEnded, InitEnded, Numbers, Places,
         Concluded, Undecided, Early, Whole, ReaderGone, Failures, Ended
<1>a. Numbers /\ Places /\ Concluded /\ Fitting
  BY NumbersKnown DEF SandboxInv, Stream
<1>b. ASSUME emitted' = emitted, decoder' = decoder, pipe' = pipe, Whole' => Whole,
             initCode # 0 => initCode' # 0 /\ step' = step
      PROVE  Fitting'
  <2>1. Parts' = Parts
    BY <1>b DEF Parts
  <2>2. \A j, e : Fits(j, e) => Fits(j, e)'
    BY <1>b, Constants DEF Fits, FailedEvent
  <2> QED BY <1>a, <1>b, <2>1, <2>2 DEF Fitting
<1>1. CASE OpenCancellation
  BY <1>1, <1>a, <1>b DEF OpenCancellation
<1>2. CASE CreateDirs
  BY <1>2, <1>a, <1>b DEF CreateDirs
<1>3. CASE Prepare
  BY <1>3, <1>a, <1>b DEF Prepare
<1>4. CASE SpawnLauncher
  BY <1>4, <1>a, <1>b DEF SpawnLauncher
<1>5. CASE SpawnReturns
  BY <1>5, <1>a, <1>b DEF SpawnReturns
<1>6. CASE Recheck
  BY <1>6, <1>a, <1>b DEF Recheck
<1>7. CASE WriteHandshake
  BY <1>7, <1>a, <1>b DEF WriteHandshake
<1>8. CASE Drain
  BY <1>8, ReadingKept
<1>9. CASE TryWait
  BY <1>9, <1>a, <1>b DEF TryWait
<1>10. CASE Poll
  BY <1>10, <1>a, <1>b DEF Poll
<1>11. CASE Kill
  BY <1>11, <1>a, <1>b DEF Kill
<1>12. CASE Reap
  BY <1>12, <1>a, <1>b DEF Reap
<1>13. CASE ReadStderr
  BY <1>13, <1>a, <1>b DEF ReadStderr
<1>14. CASE DrainAfterKill
  BY <1>14, ReadingKept
<1>15. CASE FinalDrain
  BY <1>15, ReadingKept
<1>16. CASE Capture
  BY <1>16, <1>a, <1>b DEF Capture
<1>17. CASE Cleanup
  BY <1>17, <1>a, <1>b DEF Cleanup
<1>18. CASE PreExec
  BY <1>18, <1>a, <1>b DEF PreExec
<1>19. CASE ReadConfig
  BY <1>19, <1>a, <1>b DEF ReadConfig
<1>20. CASE ReadHandshake
  BY <1>20, <1>a, <1>b DEF ReadHandshake
<1>21. CASE ForkInit
  BY <1>21, <1>a, <1>b DEF ForkInit
<1>22. CASE WaitForChild
  BY <1>22, <1>a, <1>b DEF WaitForChild
<1>23. CASE Guard
  BY <1>23, <1>a, <1>b DEF Guard
<1>24. CASE Mount
  BY <1>24, <1>a, <1>b DEF Mount
<1>25. CASE StartRunner
  BY <1>25, <1>a, <1>b DEF StartRunner
<1>26. CASE PreparePaths
  BY <1>26, <1>a, <1>b DEF PreparePaths
<1>27. CASE EmitStarted
  BY <1>27, WritingKept
<1>28. CASE EmitStartedPayload
  BY <1>28, WritingKept
<1>29. CASE SpawnStep
  BY <1>29, <1>a, <1>b DEF SpawnStep
<1>30. CASE WaitStep
  BY <1>30, <1>a, <1>b DEF WaitStep
<1>31. CASE Sweep
  BY <1>31, <1>a, <1>b DEF Sweep
<1>32. CASE EmitEnd
  BY <1>32, WritingKept
<1>33. CASE EmitEndPayload
  BY <1>33, WritingKept
<1>34. CASE NextStep
  BY <1>34, <1>a, <1>b DEF NextStep
<1>35. CASE WriteFailure
  BY <1>35, <1>a, <1>b DEF WriteFailure
<1>36. CASE Finish
  BY <1>36, <1>a, <1>b DEF Finish
<1>37. CASE SupDies
  BY <1>37, <1>a, <1>b DEF SupDies
<1>38. CASE InitDies
  BY <1>38, <1>a, <1>b DEF InitDies
<1>39. CASE Zap
  BY <1>39, <1>a, <1>b DEF Zap
<1>40. CASE ReapedByHost
  BY <1>40, <1>a, <1>b DEF ReapedByHost
<1>41. ASSUME NEW i \in Steps, ProcessDies(i) PROVE Fitting'
  BY <1>41, <1>a, <1>b DEF ProcessDies
<1>42. ASSUME NEW i \in Steps, StepForks(i) PROVE Fitting'
  BY <1>42, <1>a, <1>b DEF StepForks
<1>43. ASSUME NEW i \in Steps, StepExits(i) PROVE Fitting'
  BY <1>43, <1>a, <1>b DEF StepExits
<1>44. CASE Cancel
  BY <1>44, <1>a, <1>b DEF Cancel
<1>45. CASE OutsideKill
  BY <1>45, <1>a, <1>b DEF OutsideKill
<1>46. CASE CallerDies
  BY <1>46, <1>a, <1>b DEF CallerDies
<1> QED BY <1>1, <1>2, <1>3, <1>4, <1>5, <1>6, <1>7, <1>8, <1>9, <1>10, <1>11, <1>12, <1>13,
         <1>14, <1>15, <1>16, <1>17, <1>18, <1>19, <1>20, <1>21, <1>22, <1>23, <1>24, <1>25,
         <1>26, <1>27, <1>28, <1>29, <1>30, <1>31, <1>32, <1>33, <1>34, <1>35, <1>36, <1>37,
         <1>38, <1>39, <1>40, <1>41, <1>42, <1>43, <1>44, <1>45, <1>46
       DEF SandboxNext, CallerStep, SupStep, InitStep, Kernel

\* How long it is.
LEMMA CountedKept ==
  ASSUME SandboxInv, SandboxNext PROVE Counted'
<1> USE DEF Caller, Conclude, Sup, SupExit, At, InitExit, NoCaller, NoSup, NoInit,
         callerVars, supVars, initVars, procVars, SupEnded, InitEnded, Numbers, Places,
         Processes, Concluded, Whole, ReaderGone, Failures, Ended, Success, Steps, Undecided, Early,
         Stream, Counted, Total
<1>a. SandboxTypeOK /\ Numbers /\ Places /\ Processes /\ Concluded /\ Stream
  BY NumbersKnown DEF SandboxInv
<1>b. decoder' = decoder /\ pipe' = pipe => Parts' = Parts
  BY DEF Parts
<1>1. CASE OpenCancellation
  BY <1>1, <1>a, <1>b DEF OpenCancellation
<1>2. CASE CreateDirs
  BY <1>2, <1>a, <1>b DEF CreateDirs
<1>3. CASE Prepare
  BY <1>3, <1>a, <1>b DEF Prepare
<1>4. CASE SpawnLauncher
  BY <1>4, <1>a, <1>b DEF SpawnLauncher
<1>5. CASE SpawnReturns
  BY <1>5, <1>a, <1>b DEF SpawnReturns
<1>6. CASE Recheck
  BY <1>6, <1>a, <1>b DEF Recheck
<1>7. CASE WriteHandshake
  BY <1>7, <1>a, <1>b DEF WriteHandshake
<1>8. CASE Drain
  BY <1>8, ReadingKept
<1>9. CASE TryWait
  BY <1>9, <1>a, <1>b DEF TryWait
<1>10. CASE Poll
  BY <1>10, <1>a, <1>b DEF Poll
<1>11. CASE Kill
  BY <1>11, <1>a, <1>b DEF Kill
<1>12. CASE Reap
  BY <1>12, <1>a, <1>b DEF Reap
<1>13. CASE ReadStderr
  BY <1>13, <1>a, <1>b DEF ReadStderr
<1>14. CASE DrainAfterKill
  BY <1>14, ReadingKept
<1>15. CASE FinalDrain
  BY <1>15, ReadingKept
<1>16. CASE Capture
  BY <1>16, <1>a, <1>b DEF Capture
<1>17. CASE Cleanup
  BY <1>17, <1>a, <1>b DEF Cleanup
<1>18. CASE PreExec
  BY <1>18, <1>a, <1>b DEF PreExec
<1>19. CASE ReadConfig
  BY <1>19, <1>a, <1>b DEF ReadConfig
<1>20. CASE ReadHandshake
  BY <1>20, <1>a, <1>b DEF ReadHandshake
<1>21. CASE ForkInit
  BY <1>21, <1>a, <1>b DEF ForkInit
<1>22. CASE WaitForChild
  BY <1>22, <1>a, <1>b DEF WaitForChild
<1>23. CASE Guard
  BY <1>23, <1>a, <1>b DEF Guard
<1>24. CASE Mount
  BY <1>24, <1>a, <1>b DEF Mount
<1>25. CASE StartRunner
  BY <1>25, <1>a, <1>b DEF StartRunner
<1>26. CASE PreparePaths
  BY <1>26, <1>a, <1>b DEF PreparePaths
<1>27. CASE EmitStarted
  BY <1>27, WritingKept
<1>28. CASE EmitStartedPayload
  BY <1>28, WritingKept
<1>29. CASE SpawnStep
  BY <1>29, <1>a, <1>b DEF SpawnStep
<1>30. CASE WaitStep
  BY <1>30, <1>a, <1>b DEF WaitStep
<1>31. CASE Sweep
  BY <1>31, <1>a, <1>b DEF Sweep
<1>32. CASE EmitEnd
  BY <1>32, WritingKept
<1>33. CASE EmitEndPayload
  BY <1>33, WritingKept
<1>34. CASE NextStep
  BY <1>34, <1>a, <1>b DEF NextStep
<1>35. CASE WriteFailure
  BY <1>35, <1>a, <1>b DEF WriteFailure
<1>36. CASE Finish
  BY <1>36, <1>a, <1>b DEF Finish
<1>37. CASE SupDies
  BY <1>37, <1>a, <1>b DEF SupDies
<1>38. CASE InitDies
  BY <1>38, <1>a, <1>b DEF InitDies
<1>39. CASE Zap
  BY <1>39, <1>a, <1>b DEF Zap
<1>40. CASE ReapedByHost
  BY <1>40, <1>a, <1>b DEF ReapedByHost
<1>41. ASSUME NEW i \in Steps, ProcessDies(i) PROVE Counted'
  BY <1>41, <1>a, <1>b DEF ProcessDies
<1>42. ASSUME NEW i \in Steps, StepForks(i) PROVE Counted'
  BY <1>42, <1>a, <1>b DEF StepForks
<1>43. ASSUME NEW i \in Steps, StepExits(i) PROVE Counted'
  BY <1>43, <1>a, <1>b DEF StepExits
<1>44. CASE Cancel
  BY <1>44, <1>a, <1>b DEF Cancel
<1>45. CASE OutsideKill
  BY <1>45, <1>a, <1>b DEF OutsideKill
<1>46. CASE CallerDies
  BY <1>46, <1>a, <1>b DEF CallerDies
<1> QED BY <1>1, <1>2, <1>3, <1>4, <1>5, <1>6, <1>7, <1>8, <1>9, <1>10, <1>11, <1>12, <1>13,
         <1>14, <1>15, <1>16, <1>17, <1>18, <1>19, <1>20, <1>21, <1>22, <1>23, <1>24, <1>25,
         <1>26, <1>27, <1>28, <1>29, <1>30, <1>31, <1>32, <1>33, <1>34, <1>35, <1>36, <1>37,
         <1>38, <1>39, <1>40, <1>41, <1>42, <1>43, <1>44, <1>45, <1>46
       DEF SandboxNext, CallerStep, SupStep, InitStep, Kernel

\* What it announces.
LEMMA AnnouncedKept ==
  ASSUME SandboxInv, SandboxNext PROVE Announced'
<1> USE DEF Caller, Conclude, Sup, SupExit, At, InitExit, NoCaller, NoSup, NoInit,
         callerVars, supVars, initVars, procVars, SupEnded, InitEnded, Numbers, Places,
         Processes, Concluded, Undecided, Early, Whole, ReaderGone, Over, Failures, Ended, Steps
<1>a. SandboxTypeOK /\ Numbers /\ Concluded /\ Places /\ Processes /\ Announced
  BY NumbersKnown DEF SandboxInv, Stream
<1>b. ASSUME emitted' = emitted, decoder' = decoder, pipe' = pipe, Whole' => Whole, writer' => writer,
             \A j \in Steps : (main'[j] # "none" => main[j] # "none") /\ (Over(j) => Over(j)')
      PROVE  Announced'
  <2>1. Parts' = Parts
    BY <1>b DEF Parts
  <2> QED BY <1>a, <1>b, <2>1 DEF Announced, Total, Finished
<1>1. CASE OpenCancellation
  BY <1>1, <1>a, <1>b DEF OpenCancellation
<1>2. CASE CreateDirs
  BY <1>2, <1>a, <1>b DEF CreateDirs
<1>3. CASE Prepare
  BY <1>3, <1>a, <1>b DEF Prepare
<1>4. CASE SpawnLauncher
  BY <1>4, <1>a, <1>b DEF SpawnLauncher
<1>5. CASE SpawnReturns
  BY <1>5, <1>a, <1>b DEF SpawnReturns
<1>6. CASE Recheck
  BY <1>6, <1>a, <1>b DEF Recheck
<1>7. CASE WriteHandshake
  BY <1>7, <1>a, <1>b DEF WriteHandshake
<1>8. CASE Drain
  BY <1>8, ReadingKept
<1>9. CASE TryWait
  BY <1>9, <1>a, <1>b DEF TryWait
<1>10. CASE Poll
  BY <1>10, <1>a, <1>b DEF Poll
<1>11. CASE Kill
  BY <1>11, <1>a, <1>b DEF Kill
<1>12. CASE Reap
  BY <1>12, <1>a, <1>b DEF Reap
<1>13. CASE ReadStderr
  BY <1>13, <1>a, <1>b DEF ReadStderr
<1>14. CASE DrainAfterKill
  BY <1>14, ReadingKept
<1>15. CASE FinalDrain
  BY <1>15, ReadingKept
<1>16. CASE Capture
  BY <1>16, <1>a, <1>b DEF Capture
<1>17. CASE Cleanup
  BY <1>17, <1>a, <1>b DEF Cleanup
<1>18. CASE PreExec
  BY <1>18, <1>a, <1>b DEF PreExec
<1>19. CASE ReadConfig
  BY <1>19, <1>a, <1>b DEF ReadConfig
<1>20. CASE ReadHandshake
  BY <1>20, <1>a, <1>b DEF ReadHandshake
<1>21. CASE ForkInit
  BY <1>21, <1>a, <1>b DEF ForkInit
<1>22. CASE WaitForChild
  BY <1>22, <1>a, <1>b DEF WaitForChild
<1>23. CASE Guard
  BY <1>23, <1>a, <1>b DEF Guard
<1>24. CASE Mount
  BY <1>24, <1>a, <1>b DEF Mount
<1>25. CASE StartRunner
  BY <1>25, <1>a, <1>b DEF StartRunner
<1>26. CASE PreparePaths
  BY <1>26, <1>a, <1>b DEF PreparePaths
<1>27. CASE EmitStarted
  BY <1>27, WritingKept
<1>28. CASE EmitStartedPayload
  BY <1>28, WritingKept
<1>29. CASE SpawnStep
  <2>1. Counted
    BY DEF SandboxInv, Stream
  <2>2. Parts' = Parts /\ emitted' = emitted /\ writer' = writer /\ stray' = stray
    BY <1>29 DEF SpawnStep, Parts
  <2>3. \A j \in Steps : j # step => main'[j] = main[j]
    BY <1>29, <1>a DEF SpawnStep, SandboxTypeOK
  <2>4. ~Over(step)
    BY <1>29, <1>a DEF SpawnStep, Over
  <2>5. Whole /\ writer => Total = 4 * step - 2
    BY <1>29, <2>1 DEF SpawnStep, Counted
  <2> QED BY <1>29, <1>a, <2>2, <2>3, <2>4, <2>5 DEF SpawnStep, Announced, Over, Total, Finished
<1>30. CASE WaitStep
  BY <1>30, <1>a, <1>b DEF WaitStep
<1>31. CASE Sweep
  BY <1>31, <1>a, <1>b DEF Sweep, Doom, SandboxTypeOK
<1>32. CASE EmitEnd
  BY <1>32, WritingKept
<1>33. CASE EmitEndPayload
  BY <1>33, WritingKept
<1>34. CASE NextStep
  BY <1>34, <1>a, <1>b DEF NextStep
<1>35. CASE WriteFailure
  BY <1>35, <1>a, <1>b DEF WriteFailure
<1>36. CASE Finish
  BY <1>36, <1>a, <1>b DEF Finish, Doom, SandboxTypeOK
<1>37. CASE SupDies
  BY <1>37, <1>a, <1>b DEF SupDies
<1>38. CASE InitDies
  BY <1>38, <1>a, <1>b DEF InitDies
<1>39. CASE Zap
  BY <1>39, <1>a, <1>b DEF Zap, Doom, SandboxTypeOK
<1>40. CASE ReapedByHost
  BY <1>40, <1>a, <1>b DEF ReapedByHost
<1>41. ASSUME NEW i \in Steps, ProcessDies(i) PROVE Announced'
  BY <1>41, <1>a, <1>b DEF ProcessDies, SandboxTypeOK
<1>42. ASSUME NEW i \in Steps, StepForks(i) PROVE Announced'
  BY <1>42, <1>a, <1>b DEF StepForks, SandboxTypeOK
<1>43. ASSUME NEW i \in Steps, StepExits(i) PROVE Announced'
  BY <1>43, <1>a, <1>b DEF StepExits, SandboxTypeOK
<1>44. CASE Cancel
  BY <1>44, <1>a, <1>b DEF Cancel
<1>45. CASE OutsideKill
  BY <1>45, <1>a, <1>b DEF OutsideKill
<1>46. CASE CallerDies
  BY <1>46, <1>a, <1>b DEF CallerDies
<1> QED BY <1>1, <1>2, <1>3, <1>4, <1>5, <1>6, <1>7, <1>8, <1>9, <1>10, <1>11, <1>12, <1>13,
         <1>14, <1>15, <1>16, <1>17, <1>18, <1>19, <1>20, <1>21, <1>22, <1>23, <1>24, <1>25,
         <1>26, <1>27, <1>28, <1>29, <1>30, <1>31, <1>32, <1>33, <1>34, <1>35, <1>36, <1>37,
         <1>38, <1>39, <1>40, <1>41, <1>42, <1>43, <1>44, <1>45, <1>46
       DEF SandboxNext, CallerStep, SupStep, InitStep, Kernel

\* Types.
LEMMA TypesKept ==
  ASSUME SandboxTypeOK, Places, SandboxNext PROVE SandboxTypeOK'
<1> USE DEF Caller, Conclude, Sup, SupExit, At, InitExit, NoCaller, NoSup, NoInit,
         callerVars, supVars, initVars, procVars, SupEnded, InitEnded, SandboxTypeOK, Blame, LauncherReport
<1>a. NumSteps \in Nat \ {0} /\ MaxKills \in Nat /\ Steps = 1..NumSteps
  BY Constants, SandboxAssumption
<1>b. StartEvent \in Event /\ EndEvent \in Event
  BY DEF StartEvent, EndEvent, Event, Kinds
<1>1. CASE OpenCancellation
  BY <1>1, <1>a DEF OpenCancellation
<1>2. CASE CreateDirs
  <2>1. dirs' \subseteq {"workspace", "out"} /\ result' \in {"none", "completed", "cancelled", "error"}
    BY <1>2 DEF CreateDirs
  <2> QED BY <1>2, <2>1 DEF CreateDirs
<1>3. CASE Prepare
  BY <1>3, <1>a DEF Prepare
<1>4. CASE SpawnLauncher
  BY <1>4, <1>a DEF SpawnLauncher
<1>5. CASE SpawnReturns
  BY <1>5, <1>a DEF SpawnReturns
<1>6. CASE Recheck
  BY <1>6, <1>a DEF Recheck
<1>7. CASE WriteHandshake
  BY <1>7, <1>a DEF WriteHandshake
<1>8. CASE Drain
  <2>1. emitted' \in Seq(Event) /\ decoder' \in Seq(Part) /\ pipe' \in Seq(Part)
    <3>1. CASE DrainEvents
      BY <3>1, Drained
    <3>2. CASE ~DrainEvents
      BY <1>8, <3>2, DrainedInVain DEF Drain
    <3> QED BY <3>1, <3>2
  <2>2. outcome' \in {outcome, "error"} /\ explained' = explained /\ pc' \in {"wait", "kill"}
    BY <1>8 DEF Drain
  <2>3. UNCHANGED <<fifo, handshake, dirs, result, report, fault, kills, supVars, initVars, procVars>>
    BY <1>8 DEF Drain
  <2> QED BY <2>1, <2>2, <2>3
<1>9. CASE TryWait
  BY <1>9, <1>a DEF TryWait
<1>10. CASE Poll
  BY <1>10, <1>a DEF Poll
<1>11. CASE Kill
  BY <1>11, <1>a DEF Kill
<1>12. CASE Reap
  <2>1. pc' \in {"drained", "stderr"} /\ supDoomed' \in BOOLEAN /\ sup' = "gone"
    BY <1>12 DEF Reap
  <2> QED BY <1>12, <2>1 DEF Reap
<1>13. CASE ReadStderr
  BY <1>13, <1>a DEF ReadStderr
<1>14. CASE DrainAfterKill
  <2>1. emitted' \in Seq(Event) /\ decoder' \in Seq(Part) /\ pipe' \in Seq(Part)
    BY <1>14, Drained, DrainedInVain DEF DrainAfterKill
  <2>2. pc' = "cleanup"
        /\ UNCHANGED <<fifo, handshake, dirs, outcome, result, explained, report, fault, kills, supVars, initVars, procVars>>
    BY <1>14 DEF DrainAfterKill
  <2> QED BY <2>1, <2>2
<1>15. CASE FinalDrain
  <2>1. emitted' \in Seq(Event) /\ decoder' \in Seq(Part) /\ pipe' \in Seq(Part)
    BY <1>15, Drained, DrainedInVain DEF FinalDrain
  <2>2. /\ pc' \in {"cleanup", "capture"} /\ outcome' \in {outcome, "error"} /\ explained' \in {explained, report}
        /\ explained' # "none" => explained' = explained \/ report # "none"
        /\ UNCHANGED <<fifo, handshake, dirs, result, report, fault, kills, supVars, initVars, procVars>>
    BY <1>15 DEF FinalDrain
  <2> QED BY <2>1, <2>2
<1>16. CASE Capture
  BY <1>16, <1>a DEF Capture
<1>17. CASE Cleanup
  <2>1. dirs' \subseteq {"workspace", "out"} /\ result' \in {"none", "completed", "cancelled", "error"}
    BY <1>17 DEF Cleanup, Kept
  <2> QED BY <1>17, <2>1 DEF Cleanup
<1>18. CASE PreExec
  BY <1>18, <1>a DEF PreExec
<1>19. CASE ReadConfig
  BY <1>19, <1>a DEF ReadConfig
<1>20. CASE ReadHandshake
  BY <1>20, <1>a DEF ReadHandshake
<1>21. CASE ForkInit
  BY <1>21, <1>a DEF ForkInit
<1>22. CASE WaitForChild
  BY <1>22, <1>a DEF WaitForChild
<1>23. CASE Guard
  BY <1>23, <1>a DEF Guard
<1>24. CASE Mount
  BY <1>24, <1>a DEF Mount
<1>25. CASE StartRunner
  BY <1>25, <1>a DEF StartRunner
<1>26. CASE PreparePaths
  BY <1>26, <1>a DEF PreparePaths
<1>27. CASE EmitStarted
  <2>1. Emit("start", "starting", StartEvent, "length")
        /\ init' \in {"starting", "spawn", "ending", "report", "next", "finish"}
    BY <1>27 DEF EmitStarted, Emit, At
  <2>2. pipe' \in Seq(Part) /\ writer' \in BOOLEAN
    BY <1>b, <2>1, EmitTypes
  <2>3. UNCHANGED <<callerVars, supVars, fifo, kills, initCode, initDoomed, guarded, step, report, fault, procVars>>
    BY <2>1 DEF Emit, NoSup
  <2> QED BY <2>1, <2>2, <2>3
<1>28. CASE EmitStartedPayload
  <2>1. Emit("starting", "spawn", StartEvent, "payload")
        /\ init' \in {"starting", "spawn", "ending", "report", "next", "finish"}
    BY <1>28 DEF EmitStartedPayload, Emit, At
  <2>2. pipe' \in Seq(Part) /\ writer' \in BOOLEAN
    BY <1>b, <2>1, EmitTypes
  <2>3. UNCHANGED <<callerVars, supVars, fifo, kills, initCode, initDoomed, guarded, step, report, fault, procVars>>
    BY <2>1 DEF Emit, NoSup
  <2> QED BY <2>1, <2>2, <2>3
<1>29. CASE SpawnStep
  <2>1. main' \in [Steps -> {"none", "alive", "doomed", "ok", "failed"}]
    BY <1>29 DEF SpawnStep
  <2> QED BY <1>29, <1>a, <2>1 DEF SpawnStep
<1>30. CASE WaitStep
  BY <1>30, <1>a DEF WaitStep
<1>31. CASE Sweep
  BY <1>31, <1>a DEF Sweep, Doom
<1>32. CASE EmitEnd
  <2>1. Emit("end", "ending", EndEvent, "length")
        /\ init' \in {"starting", "spawn", "ending", "report", "next", "finish"}
    BY <1>32 DEF EmitEnd, Emit, At
  <2>2. pipe' \in Seq(Part) /\ writer' \in BOOLEAN
    BY <1>b, <2>1, EmitTypes
  <2>3. UNCHANGED <<callerVars, supVars, fifo, kills, initCode, initDoomed, guarded, step, report, fault, procVars>>
    BY <2>1 DEF Emit, NoSup
  <2> QED BY <2>1, <2>2, <2>3
<1>33. CASE EmitEndPayload
  <2>1. Emit("ending", IF Failing THEN "report" ELSE IF step < NumSteps THEN "next" ELSE "finish", EndEvent, "payload")
        /\ init' \in {"starting", "spawn", "ending", "report", "next", "finish"}
    BY <1>33 DEF EmitEndPayload, Emit, At
  <2>2. pipe' \in Seq(Part) /\ writer' \in BOOLEAN
    BY <1>b, <2>1, EmitTypes
  <2>3. UNCHANGED <<callerVars, supVars, fifo, kills, initCode, initDoomed, guarded, step, report, fault, procVars>>
    BY <2>1 DEF Emit, NoSup
  <2> QED BY <2>1, <2>2, <2>3
<1>34. CASE NextStep
  BY <1>34, <1>a DEF NextStep, Places
<1>35. CASE WriteFailure
  BY <1>35, <1>a DEF WriteFailure
<1>36. CASE Finish
  BY <1>36, <1>a DEF Finish, Doom
<1>37. CASE SupDies
  <2>1. initDoomed' \in BOOLEAN /\ supDoomed' \in BOOLEAN
    BY <1>37 DEF SupDies
  <2> QED BY <1>37, <2>1 DEF SupDies
<1>38. CASE InitDies
  BY <1>38, <1>a DEF InitDies
<1>39. CASE Zap
  BY <1>39, <1>a DEF Zap, Doom
<1>40. CASE ReapedByHost
  BY <1>40, <1>a DEF ReapedByHost
<1>41. ASSUME NEW i \in Steps, ProcessDies(i) PROVE SandboxTypeOK'
  <2>1. main' \in [Steps -> {"none", "alive", "doomed", "ok", "failed"}]
    BY <1>41 DEF ProcessDies
  <2>2. stray' \in [Steps -> {"none", "alive", "doomed", "dead"}]
    BY <1>41 DEF ProcessDies
  <2>3. UNCHANGED <<callerVars, supVars, fifo, kills, initVars, pipe, report, fault>>
    BY <1>41 DEF ProcessDies
  <2> QED BY <2>1, <2>2, <2>3
<1>42. ASSUME NEW i \in Steps, StepForks(i) PROVE SandboxTypeOK'
  BY <1>42, <1>a DEF StepForks
<1>43. ASSUME NEW i \in Steps, StepExits(i) PROVE SandboxTypeOK'
  BY <1>43, <1>a DEF StepExits
<1>44. CASE Cancel
  BY <1>44, <1>a DEF Cancel
<1>45. CASE OutsideKill
  <2>1. kills' \in 0..MaxKills /\ initDoomed' \in BOOLEAN
    BY <1>45, <1>a DEF OutsideKill
  <2> QED BY <1>45, <2>1 DEF OutsideKill
<1>46. CASE CallerDies
  <2>1. kills' \in 0..MaxKills
    BY <1>46, <1>a DEF CallerDies
  <2>2. supDoomed' \in BOOLEAN
    BY <1>46 DEF CallerDies
  <2>3. handshake' \in {"open", "byte", "closed"} /\ pc' = "dead"
    BY <1>46 DEF CallerDies
  <2> QED BY <1>46, <2>1, <2>2, <2>3 DEF CallerDies
<1> QED BY <1>1, <1>2, <1>3, <1>4, <1>5, <1>6, <1>7, <1>8, <1>9, <1>10, <1>11, <1>12, <1>13,
         <1>14, <1>15, <1>16, <1>17, <1>18, <1>19, <1>20, <1>21, <1>22, <1>23, <1>24, <1>25,
         <1>26, <1>27, <1>28, <1>29, <1>30, <1>31, <1>32, <1>33, <1>34, <1>35, <1>36, <1>37,
         <1>38, <1>39, <1>40, <1>41, <1>42, <1>43, <1>44, <1>45, <1>46
       DEF SandboxNext, CallerStep, SupStep, InitStep, Kernel

\* A captured build has told all its events.
LEMMA HandedOnKept ==
  ASSUME SandboxInv, SandboxNext PROVE (pc = "capture" \/ outcome = "completed" => emitted = Full)'
<1> USE DEF Caller, Conclude, Sup, SupExit, At, InitExit, NoCaller, NoSup, NoInit,
         callerVars, supVars, initVars, procVars, SupEnded, InitEnded, Concluded, Undecided,
         Early
<1>a. Concluded /\ (pc = "capture" \/ outcome = "completed" => emitted = Full) /\ Full' = Full
  BY Constants DEF SandboxInv, Stream
<1>1. CASE OpenCancellation
  BY <1>1, <1>a DEF OpenCancellation
<1>2. CASE CreateDirs
  BY <1>2, <1>a DEF CreateDirs
<1>3. CASE Prepare
  BY <1>3, <1>a DEF Prepare
<1>4. CASE SpawnLauncher
  BY <1>4, <1>a DEF SpawnLauncher
<1>5. CASE SpawnReturns
  BY <1>5, <1>a DEF SpawnReturns
<1>6. CASE Recheck
  BY <1>6, <1>a DEF Recheck
<1>7. CASE WriteHandshake
  BY <1>7, <1>a DEF WriteHandshake
<1>8. CASE Drain
  BY <1>8, <1>a DEF Drain
<1>9. CASE TryWait
  BY <1>9, <1>a DEF TryWait
<1>10. CASE Poll
  BY <1>10, <1>a DEF Poll
<1>11. CASE Kill
  BY <1>11, <1>a DEF Kill
<1>12. CASE Reap
  BY <1>12, <1>a DEF Reap
<1>13. CASE ReadStderr
  BY <1>13, <1>a DEF ReadStderr
<1>14. CASE DrainAfterKill
  BY <1>14, <1>a DEF DrainAfterKill
<1>15. CASE FinalDrain
  BY <1>15, <1>a, AllHandedOn DEF FinalDrain
<1>16. CASE Capture
  BY <1>16, <1>a DEF Capture
<1>17. CASE Cleanup
  BY <1>17, <1>a DEF Cleanup
<1>18. CASE PreExec
  BY <1>18, <1>a DEF PreExec
<1>19. CASE ReadConfig
  BY <1>19, <1>a DEF ReadConfig
<1>20. CASE ReadHandshake
  BY <1>20, <1>a DEF ReadHandshake
<1>21. CASE ForkInit
  BY <1>21, <1>a DEF ForkInit
<1>22. CASE WaitForChild
  BY <1>22, <1>a DEF WaitForChild
<1>23. CASE Guard
  BY <1>23, <1>a DEF Guard
<1>24. CASE Mount
  BY <1>24, <1>a DEF Mount
<1>25. CASE StartRunner
  BY <1>25, <1>a DEF StartRunner
<1>26. CASE PreparePaths
  BY <1>26, <1>a DEF PreparePaths
<1>27. CASE EmitStarted
  BY <1>27, <1>a DEF EmitStarted, Emit, ReaderGone
<1>28. CASE EmitStartedPayload
  BY <1>28, <1>a DEF EmitStartedPayload, Emit, ReaderGone
<1>29. CASE SpawnStep
  BY <1>29, <1>a DEF SpawnStep
<1>30. CASE WaitStep
  BY <1>30, <1>a DEF WaitStep
<1>31. CASE Sweep
  BY <1>31, <1>a DEF Sweep
<1>32. CASE EmitEnd
  BY <1>32, <1>a DEF EmitEnd, Emit, ReaderGone
<1>33. CASE EmitEndPayload
  BY <1>33, <1>a DEF EmitEndPayload, Emit, ReaderGone, Failing
<1>34. CASE NextStep
  BY <1>34, <1>a DEF NextStep
<1>35. CASE WriteFailure
  BY <1>35, <1>a DEF WriteFailure
<1>36. CASE Finish
  BY <1>36, <1>a DEF Finish
<1>37. CASE SupDies
  BY <1>37, <1>a DEF SupDies
<1>38. CASE InitDies
  BY <1>38, <1>a DEF InitDies
<1>39. CASE Zap
  BY <1>39, <1>a DEF Zap
<1>40. CASE ReapedByHost
  BY <1>40, <1>a DEF ReapedByHost
<1>41. ASSUME NEW i \in Steps, ProcessDies(i) PROVE (pc = "capture" \/ outcome = "completed" => emitted = Full)'
  BY <1>41, <1>a DEF ProcessDies
<1>42. ASSUME NEW i \in Steps, StepForks(i) PROVE (pc = "capture" \/ outcome = "completed" => emitted = Full)'
  BY <1>42, <1>a DEF StepForks
<1>43. ASSUME NEW i \in Steps, StepExits(i) PROVE (pc = "capture" \/ outcome = "completed" => emitted = Full)'
  BY <1>43, <1>a DEF StepExits
<1>44. CASE Cancel
  BY <1>44, <1>a DEF Cancel
<1>45. CASE OutsideKill
  BY <1>45, <1>a DEF OutsideKill
<1>46. CASE CallerDies
  BY <1>46, <1>a DEF CallerDies
<1> QED BY <1>1, <1>2, <1>3, <1>4, <1>5, <1>6, <1>7, <1>8, <1>9, <1>10, <1>11, <1>12, <1>13,
         <1>14, <1>15, <1>16, <1>17, <1>18, <1>19, <1>20, <1>21, <1>22, <1>23, <1>24, <1>25,
         <1>26, <1>27, <1>28, <1>29, <1>30, <1>31, <1>32, <1>33, <1>34, <1>35, <1>36, <1>37,
         <1>38, <1>39, <1>40, <1>41, <1>42, <1>43, <1>44, <1>45, <1>46
       DEF SandboxNext, CallerStep, SupStep, InitStep, Kernel

----------------------------------------------------------------------------
(* Theorems *)

LEMMA SandboxStarts == ASSUME SandboxInit PROVE SandboxInv
<1> USE Constants DEF SandboxInit
<1>1. SandboxTypeOK
  <2>1. 0 \in 0..MaxKills /\ 1 \in Steps
    BY SandboxAssumption
  <2>2. pipe \in Seq(Part) /\ decoder \in Seq(Part) /\ emitted \in Seq(Event)
    OBVIOUS
  <2> QED BY <2>1, <2>2 DEF SandboxTypeOK
<1>2. Places /\ Processes /\ Blamed /\ Concluded
  BY DEF Places, Processes, Blamed, Concluded, Early, Undecided, Failures, Ended, SupEnded, InitEnded, Running,
         Success
<1>3. Parts = <<>>
  BY DEF Parts
<1>4. Stream
  BY <1>3 DEF Stream, Fitting, Counted, Announced, Total, Ended
<1> QED BY <1>1, <1>2, <1>4 DEF SandboxInv

LEMMA SandboxStep == ASSUME SandboxInv, [SandboxNext]_sandboxVars PROVE SandboxInv'
<1>1. CASE SandboxNext
  <2>1. SandboxTypeOK /\ Numbers /\ Places /\ Processes /\ Blamed /\ Concluded
    BY NumbersKnown DEF SandboxInv
  <2>2. SandboxTypeOK' /\ Places' /\ Processes' /\ Blamed' /\ Concluded'
    BY <1>1, <2>1, TypesKept, PlacesKept, ProcessesKept, BlamedKept, ConcludedKept
  <2>3. Stream'
    BY <1>1, FittingKept, CountedKept, AnnouncedKept, HandedOnKept DEF Stream
  <2> QED BY <2>2, <2>3 DEF SandboxInv
<1>2. CASE UNCHANGED sandboxVars
  <2> USE <1>2 DEF sandboxVars
  <2>1. SandboxTypeOK' /\ Places' /\ Processes' /\ Blamed' /\ Concluded'
    BY DEF SandboxInv, SandboxTypeOK, Places, Processes, Blamed, Concluded, SupEnded, InitEnded, Running, Success,
           Told, Untold, FailureExplained
  <2>2. Parts' = Parts /\ Full' = Full
    BY Constants DEF Parts
  <2>3. Fitting'
    BY <2>2 DEF SandboxInv, Stream, Fitting, Fits, FailedEvent, Whole, ReaderGone
  <2>4. Counted' /\ Announced'
    BY <2>2 DEF SandboxInv, Stream, Counted, Announced, Total, Finished, Over, Whole, ReaderGone
  <2>5. Stream'
    BY <2>2, <2>3, <2>4 DEF SandboxInv, Stream
  <2> QED BY <2>1, <2>5 DEF SandboxInv
<1> QED BY <1>1, <1>2

LEMMA SandboxInvariant == SandboxSpec => []SandboxInv
<1>1. SandboxInit => SandboxInv
  BY SandboxStarts
<1>2. SandboxInv /\ [SandboxNext]_sandboxVars => SandboxInv'
  BY SandboxStep
<1> QED BY <1>1, <1>2, PTL DEF SandboxSpec

\* What the invariant says of a run that is over.
LEMMA InvOutcome == SandboxInv => EndJustified /\ FailureExplained
<1> SUFFICES ASSUME SandboxInv PROVE EndJustified /\ FailureExplained
  OBVIOUS
<1>1. /\ SandboxTypeOK /\ Places /\ Processes /\ Stream /\ Blamed /\ Concluded
      /\ Numbers /\ Steps = 1..NumSteps
  BY NumbersKnown, Constants DEF SandboxInv
<1>2. FailureExplained
  BY <1>1 DEF Blamed, FailureExplained
<1>3. ASSUME result = "completed"
      PROVE  /\ \A i \in Steps : main[i] = "ok"
             /\ emitted = Full
             /\ AllGone
             /\ dirs = IF PlainObject THEN {"out"} ELSE {}
  <2>1. outcome = "completed" /\ Success /\ sup = "gone" /\ dirs = AllDirs \cap {"out"}
    BY <1>1, <1>3 DEF Concluded
  <2>2. step = NumSteps /\ main[step] = "ok" /\ \A i \in Steps : ~Running(i)
    BY <1>1, <2>1 DEF Places, Processes, Success, Ended, InitEnded
  <2>3. \A i \in Steps : main[i] = "ok"
    BY <1>1, <2>2 DEF Processes, Numbers
  <2>4. dirs = IF PlainObject THEN {"out"} ELSE {}
    BY <2>1 DEF AllDirs
  <2> QED BY <1>1, <2>1, <2>2, <2>3, <2>4 DEF Stream, AllGone, Success, SupEnded, InitEnded
<1>4. EndJustified
  BY <1>1, <1>3 DEF EndJustified, Concluded
<1> QED BY <1>2, <1>4

\* What it says of the events.
LEMMA InvEvents == SandboxInv => EventsFaithful
<1> SUFFICES ASSUME SandboxInv PROVE EventsFaithful
  OBVIOUS
<1>1. /\ SandboxTypeOK /\ Places /\ Processes /\ Fitting /\ Announced /\ Counted
      /\ Numbers /\ Steps = 1..NumSteps
  BY NumbersKnown, Constants DEF SandboxInv, Stream
<1>2. Len(emitted) \in Nat /\ Len(Parts) \in Nat /\ emitted \in Seq(Event)
  BY <1>1, PartsKnown DEF SandboxTypeOK
<1>3. ASSUME NEW k \in DOMAIN emitted
      PROVE  \/ emitted[k] = Full[k]
             \/ k = Len(emitted) /\ k % 2 = 0 /\ emitted[k] = [Full[k] EXCEPT !.kind = "failed"]
  <2>1. k \in 1..Len(emitted) /\ Fits(k, emitted[k])
    BY <1>1, <1>2 DEF Fitting
  <2>2. CASE emitted[k] # Full[k]
    <3>1. k = 2 * step /\ emitted[k] = FailedEvent /\ k \in 1..(2 * NumSteps)
      BY <2>1, <2>2 DEF Fits
    <3>2. k % 2 = 0 /\ (k + 1) \div 2 = step
      BY <1>1, <3>1 DEF Numbers
    <3>3. [Full[k] EXCEPT !.kind = "failed"] = FailedEvent
      BY <3>1, <3>2 DEF Full, FailedEvent
    <3>4. k = Len(emitted)
      BY <1>1, <1>2, <2>1, <3>1 DEF Counted, Numbers
    <3> QED BY <3>1, <3>2, <3>3, <3>4
  <2> QED BY <2>2
<1>4. ASSUME NEW i \in Steps, main[i] # "none", writer, outcome # "error", ~ReaderGone
      PROVE  \E k \in DOMAIN Sent : Sent[k] = [kind |-> "started", index |-> i]
  <2>1. Total >= 4 * i - 2 /\ i \in Nat \ {0} /\ Whole
    BY <1>1, <1>4 DEF Announced, Whole
  <2>2. Full[2 * i - 1] = [kind |-> "started", index |-> i] /\ 2 * i - 1 \in 1..(2 * NumSteps)
    <3>1. 2 * i - 1 \in 1..(2 * NumSteps) /\ (2 * i - 1) % 2 = 1 /\ (2 * i - 1 + 1) \div 2 = i
      BY <1>1, <1>4 DEF Numbers
    <3> QED BY <3>1 DEF Full
  <2>3. /\ Sent \in Seq(Event) /\ Len(Sent) = Len(emitted) + Len(Parts) \div 2
        /\ \A k \in 1..Len(emitted) : Sent[k] = emitted[k]
        /\ \A k \in 1..(Len(Parts) \div 2) : Sent[Len(emitted) + k] = Decoded[k]
    <3>1. Decoded \in Seq(Event) /\ Len(Decoded) = Len(Parts) \div 2
      BY <1>1, PartsKnown
    <3>2. Sent \in Seq(Event) /\ Len(Sent) = Len(emitted) + Len(Decoded)
      BY <1>2, <3>1 DEF Sent
    <3>3. \A k \in 1..Len(emitted) : Sent[k] = emitted[k]
      BY <1>2, <3>1 DEF Sent
    <3>4. \A k \in 1..Len(Decoded) : Sent[Len(emitted) + k] = Decoded[k]
      BY <1>2, <3>1 DEF Sent
    <3> QED BY <3>1, <3>2, <3>3, <3>4
  <2>4. 2 * i - 1 \in 1..Len(Sent)
    BY <1>2, <2>1, <2>3 DEF Total
  <2>5. Fits(2 * i - 1, Sent[2 * i - 1])
    <3>1. CASE 2 * i - 1 \in 1..Len(emitted)
      BY <1>1, <2>3, <3>1 DEF Fitting
    <3>2. CASE 2 * i - 1 \notin 1..Len(emitted)
      <4> DEFINE m == 2 * i - 1 - Len(emitted)
      <4>1. m \in 1..(Len(Parts) \div 2) /\ Len(emitted) + m = 2 * i - 1
        BY <1>2, <2>1, <2>3, <2>4, <3>2
      <4> HIDE DEF m
      <4>2. Sent[2 * i - 1] = Parts[2 * m].event /\ 2 * m \in 1..Len(Parts)
        <5>1. Sent[Len(emitted) + m] = Decoded[m]
          BY <2>3, <4>1
        <5>2. Decoded[m] = Parts[2 * m].event
          BY <1>1, <4>1, PartsKnown
        <5>3. 2 * m \in 1..Len(Parts)
          BY <1>2, <4>1
        <5> QED BY <4>1, <5>1, <5>2, <5>3
      <4>3. Fits((2 * Len(emitted) + 2 * m + 1) \div 2, Parts[2 * m].event)
        BY <1>1, <2>1, <4>2 DEF Fitting
      <4>4. (2 * Len(emitted) + 2 * m + 1) \div 2 = 2 * i - 1
        BY <1>2, <2>1, <4>1
      <4> QED BY <4>2, <4>3, <4>4
    <3> QED BY <3>1, <3>2
  <2>6. 2 * i - 1 # 2 * step
    BY <1>1, <2>1 DEF Numbers
  <2>7. Sent[2 * i - 1] = Full[2 * i - 1]
    BY <2>5, <2>6 DEF Fits
  <2> QED BY <2>2, <2>3, <2>4, <2>7
<1>5. ASSUME NEW i \in Steps, NEW k \in DOMAIN emitted, emitted[k] = [kind |-> "finished", index |-> i]
      PROVE  main[i] = "ok" /\ stray[i] # "alive"
  BY <1>1, <1>2, <1>5 DEF Announced, Finished, Over
<1>6. ASSUME NEW i \in Steps, main[i] # "none", NEW j \in 1..(i - 1)
      PROVE  main[j] = "ok" /\ stray[j] # "alive"
  <2>1. i <= step /\ j < step /\ j \in Steps
    BY <1>1, <1>6 DEF Processes, Numbers
  <2> QED BY <1>1, <2>1 DEF Processes
<1> QED BY <1>3, <1>4, <1>5, <1>6 DEF EventsFaithful

\* For every recipe, any number of kills at any moment and any processes left
\* behind: a build is reported as completed only when every step has succeeded,
\* every event has been handed on and every process is gone; as cancelled only
\* when it was; a failure carries the report of what failed first; and events
\* come in the order of the steps, each once, a step being announced before it
\* runs and called finished only when it is over (lib.rs run_sandbox_function,
\* lifecycle.rs run_sandbox_launcher_command, runner.rs run).
THEOREM OutcomeAlwaysJustified == SandboxSpec => []OutcomeJustified
<1>1. SandboxInv => OutcomeJustified
  BY InvOutcome, InvEvents DEF OutcomeJustified
<1> QED BY <1>1, SandboxInvariant, PTL

----------------------------------------------------------------------------
(* The namespace runtime: the invariant, the steps, the theorem *)

\* The thread has forked its worker; the worker has not ended its answer.
Forked == {"drop", "userns", "idmap", "send", "input", "read", "wait", "kill", "reap"}
Unanswered == {"none", "setup", "ready", "request", "input", "run"}

\* Where the thread and the worker of a call are.
CallPlaces(c) ==
  /\ thread[c] \in {"idle", "pipes"} => id[c] = NoId
  /\ thread[c] \in {"idle", "pipes", "fork"} => worker[c] = "none"
  /\ thread[c] \in Forked => worker[c] \notin {"none", "gone"}
  /\ thread[c] = "done" => worker[c] \in {"none", "gone"}

\* The frames s on their way in a call numbered i that has handed on n events
\* of m: all are its own, all but the last are events, and the pipe is open
\* while the last one is an event too.
OpenFrames(s) == s = <<>> \/ s[Len(s)].kind = "event"
Frames(s, i, n, m) ==
  /\ \A k \in 1..Len(s) : s[k].id = i /\ (k < Len(s) => s[k].kind = "event")
  /\ n + Len(s) = IF OpenFrames(s) THEN m ELSE m + 1
CallFrames(c) ==
  /\ Frames(response[c], id[c], seen[c], sentEvents[c])
  /\ worker[c] \in Unanswered => OpenFrames(response[c])
  /\ answer[c] \in {"ok", "err"} => response[c] = <<>> /\ worker[c] \notin Unanswered
  /\ returned[c] = "ok" => worker[c] = "gone" /\ code[c] = 0 /\ answer[c] = "ok"
  /\ returned[c] # "none" <=> thread[c] = "done"
  /\ worker[c] = "none" => response[c] = <<>>

\* No two calls have one number.
NumbersUnique ==
  \A c \in Calls : id[c] < nextId /\ \A d \in Calls \ {c} : id[c] = id[d] => id[c] = NoId

\* The pipes' ends: which sets of processes hold them, and that a thread that
\* has not opened its pipes, or is done with them, holds none.
Held == [Calls -> [Ends -> SUBSET Nat]]
LetGo(c) ==
  thread[c] \in {"idle", "pipes", "wait", "done"} => \A e \in Ends : Parent \notin holders[c][e]
\* The types the steps need.
RuntimeShape ==
  /\ nextId \in Nat \ {0} /\ id \in [Calls -> Nat]
  /\ thread = [c \in Calls |-> thread[c]] /\ worker = [c \in Calls |-> worker[c]]
  /\ code = [c \in Calls |-> code[c]]
  /\ response \in [Calls -> Seq(Frame)]
  /\ sentEvents \in [Calls -> Nat] /\ seen \in [Calls -> Nat]
  /\ answer \in [Calls -> {"none", "ok", "err", "broken"}]
  /\ returned = [c \in Calls |-> returned[c]]

\* A worker is never taken for the parent.
LEMMA CallNumbers == \A c \in Calls : Worker(c) \in Nat \ {Parent}
  BY RuntimeAssumption DEF Worker, Parent

\* Letting go of some ends of one call; of all a process has; and a fork.
LEMMA DropFacts ==
  ASSUME NEW h \in Held, NEW c \in Calls, NEW S
  PROVE  /\ Drop(h, Parent, c, S) \in Held
         /\ \A d \in Calls \ {c} : Drop(h, Parent, c, S)[d] = h[d]
         /\ \A e \in Ends \cap S : Parent \notin Drop(h, Parent, c, S)[c][e]
<1> DEFINE g == [e \in Ends |-> IF e \in S THEN h[c][e] \ {Parent} ELSE h[c][e]]
<1>1. h[c] \in [Ends -> SUBSET Nat]
  BY DEF Held
<1>2. \A e \in Ends : h[c][e] \in SUBSET Nat
  BY <1>1
<1>3. g \in [Ends -> SUBSET Nat]
  BY <1>2
<1>4. \A e \in Ends \cap S : Parent \notin g[e]
  BY Zenon
<1>5. Drop(h, Parent, c, S) = [h EXCEPT ![c] = g]
  BY Zenon DEF Drop
<1> HIDE DEF g
<1> QED BY <1>3, <1>4, <1>5 DEF Held

LEMMA DropAllFacts ==
  ASSUME NEW h \in Held, NEW c \in Calls
  PROVE  /\ DropAll(h, Worker(c)) \in Held
         /\ \A d \in Calls, e \in Ends :
              Parent \in DropAll(h, Worker(c))[d][e] <=> Parent \in h[d][e]
<1>1. \A d \in Calls, e \in Ends : h[d][e] \in SUBSET Nat
  BY DEF Held
<1> QED BY <1>1, CallNumbers DEF Held, DropAll

LEMMA InheritFacts ==
  ASSUME NEW h \in Held, NEW c \in Calls
  PROVE  /\ Inherit(h, Worker(c)) \in Held
         /\ \A d \in Calls, e \in Ends :
              Parent \in Inherit(h, Worker(c))[d][e] <=> Parent \in h[d][e]
<1>1. \A d \in Calls, e \in Ends : h[d][e] \in SUBSET Nat
  BY DEF Held
<1> QED BY <1>1, CallNumbers DEF Held, Inherit

\* What a worker sends is a frame.
LEMMA FrameFacts ==
  ASSUME RuntimeShape, NEW c \in Calls, NEW kind \in {"event", "ok", "err", "cut"}
  PROVE  [kind |-> kind, id |-> id[c]] \in Frame
  BY DEF RuntimeShape, Frame

\* An event, and anything that ends the answer, put at the end of an open pipe.
LEMMA SendsEvent ==
  ASSUME NEW s \in Seq(Frame), NEW i \in Nat, NEW n \in Nat, NEW m \in Nat,
         Frames(s, i, n, m), OpenFrames(s)
  PROVE  /\ Frames(Append(s, [kind |-> "event", id |-> i]), i, n, m + 1)
         /\ OpenFrames(Append(s, [kind |-> "event", id |-> i]))
<1> DEFINE f == [kind |-> "event", id |-> i]
           t == Append(s, f)
<1>1. f \in Frame /\ f.kind = "event" /\ f.id = i
  BY DEF Frame
<1>2. t \in Seq(Frame) /\ Len(t) = Len(s) + 1 /\ t[Len(t)] = f /\ \A k \in 1..Len(s) : t[k] = s[k]
  BY <1>1
<1>3. Len(s) \in Nat /\ (s = <<>> <=> Len(s) = 0)
  OBVIOUS
<1> HIDE DEF f, t
<1>4. \A k \in 1..Len(s) : s[k].kind = "event"
  BY <1>3 DEF Frames, OpenFrames
<1>5. n + Len(s) = m
  BY DEF Frames
<1>6. OpenFrames(t)
  BY <1>1, <1>2 DEF OpenFrames
<1>7. Frames(t, i, n, m + 1)
  BY <1>1, <1>2, <1>3, <1>4, <1>5, <1>6 DEF Frames
<1> QED BY <1>6, <1>7 DEF f, t

LEMMA SendsLast ==
  ASSUME NEW s \in Seq(Frame), NEW i \in Nat, NEW n \in Nat, NEW m \in Nat,
         NEW kind \in {"ok", "err", "cut"}, Frames(s, i, n, m), OpenFrames(s)
  PROVE  Frames(Append(s, [kind |-> kind, id |-> i]), i, n, m)
<1> DEFINE f == [kind |-> kind, id |-> i]
           t == Append(s, f)
<1>1. f \in Frame /\ f.kind # "event" /\ f.id = i
  BY DEF Frame
<1>2. t \in Seq(Frame) /\ Len(t) = Len(s) + 1 /\ t[Len(t)] = f /\ \A k \in 1..Len(s) : t[k] = s[k]
  BY <1>1
<1>3. Len(s) \in Nat /\ (s = <<>> <=> Len(s) = 0) /\ t # <<>>
  BY <1>2
<1> HIDE DEF f, t
<1>4. \A k \in 1..Len(s) : s[k].kind = "event"
  BY <1>3 DEF Frames, OpenFrames
<1>5. n + Len(s) = m
  BY DEF Frames
<1>6. ~OpenFrames(t)
  BY <1>1, <1>2, <1>3 DEF OpenFrames
<1>7. Frames(t, i, n, m)
  BY <1>1, <1>2, <1>3, <1>4, <1>5, <1>6 DEF Frames
<1> QED BY <1>7 DEF f, t

\* The first frame taken: an event leaves the rest as it was, anything else was
\* the last one.
LEMMA TakesFrame ==
  ASSUME NEW s \in Seq(Frame), NEW i \in Nat, NEW n \in Nat, NEW m \in Nat,
         Frames(s, i, n, m), s # <<>>
  PROVE  /\ Head(s).kind = "event" =>
              Frames(Tail(s), i, n + 1, m) /\ (OpenFrames(s) <=> OpenFrames(Tail(s)))
         /\ Head(s).kind # "event" =>
              Tail(s) = <<>> /\ ~OpenFrames(s) /\ Frames(Tail(s), i, n, m)
<1> DEFINE t == Tail(s)
<1>1. /\ Len(s) \in Nat \ {0} /\ Head(s) = s[1] /\ t \in Seq(Frame) /\ Len(t) = Len(s) - 1
      /\ \A k \in 1..Len(t) : t[k] = s[k + 1]
  OBVIOUS
<1> HIDE DEF t
<1>2. t = <<>> <=> Len(s) = 1
  <2>1. t = <<>> <=> Len(t) = 0
    BY <1>1
  <2> QED BY <1>1, <2>1
<1>3. CASE Head(s).kind = "event"
  <2>1. OpenFrames(s) <=> OpenFrames(t)
    <3>1. CASE Len(s) = 1
      BY <1>1, <1>2, <1>3, <3>1 DEF OpenFrames
    <3>2. CASE Len(s) # 1
      <4>1. Len(t) \in 1..Len(t) /\ t[Len(t)] = s[Len(s)]
        BY <1>1, <3>2
      <4> QED BY <1>2, <3>2, <4>1 DEF OpenFrames
    <3> QED BY <3>1, <3>2
  <2>2. Frames(t, i, n + 1, m)
    <3>1. ASSUME NEW k \in 1..Len(t)
          PROVE  t[k].id = i /\ (k < Len(t) => t[k].kind = "event")
      <4>1. k + 1 \in 1..Len(s) /\ t[k] = s[k + 1] /\ (k < Len(t) => k + 1 < Len(s))
        BY <1>1
      <4> QED BY <4>1 DEF Frames
    <3>2. n + 1 + Len(t) = n + Len(s)
      BY <1>1
    <3> QED BY <2>1, <3>1, <3>2 DEF Frames
  <2> QED BY <1>3, <2>1, <2>2 DEF t
<1>4. CASE Head(s).kind # "event"
  <2>1. Len(s) = 1
    BY <1>1, <1>4 DEF Frames
  <2>2. t = <<>> /\ ~OpenFrames(s) /\ Len(t) = 0
    BY <1>1, <1>2, <1>4, <2>1 DEF OpenFrames
  <2>3. n = m
    BY <2>1, <2>2 DEF Frames
  <2>4. Frames(t, i, n, m)
    BY <2>2, <2>3 DEF Frames, OpenFrames
  <2> QED BY <1>4, <2>2, <2>4 DEF t
<1> QED BY <1>3, <1>4

\* With nothing in the pipe, all that was emitted has been handed on.
LEMMA NoFrames ==
  ASSUME NEW i, NEW n \in Nat, NEW m \in Nat
  PROVE  Frames(<<>>, i, n, m) <=> n = m
  BY DEF Frames, OpenFrames

\* Every step keeps the types.
LEMMA RuntimeShapeKept ==
  ASSUME RuntimeShape, NEW c \in Calls,
         ThreadStep(c) \/ WorkerStep(c) \/ WorkerEvent(c) \/ WorkerKilled(c)
  PROVE  RuntimeShape'
<1> USE DEF Goes, Returns, Works, Dies, NoThread, RuntimeShape
<1>1. CASE OpenRuntime(c)
  BY <1>1 DEF OpenRuntime
<1>2. CASE OpenPipes(c)
  BY <1>2 DEF OpenPipes
<1>3. CASE Fork(c)
  BY <1>3 DEF Fork
<1>4. CASE DropChildEnds(c)
  BY <1>4 DEF DropChildEnds
<1>5. CASE WaitUserns(c)
  BY <1>5 DEF WaitUserns
<1>6. CASE ConfigureIdMaps(c)
  BY <1>6 DEF ConfigureIdMaps
<1>7. CASE SendRequest(c)
  BY <1>7 DEF SendRequest, Broken
<1>8. CASE SendInput(c)
  BY <1>8 DEF SendInput, Broken
<1>9. CASE ReadResponse(c)
  <2>1. response[c] # <<>> =>
          Tail(response[c]) \in Seq(Frame) /\ Head(response[c]) \in Frame
    OBVIOUS
  <2>2. response' \in [Calls -> Seq(Frame)]
    BY <1>9, <2>1 DEF ReadResponse
  <2>3. seen' \in [Calls -> Nat]
    BY <1>9 DEF ReadResponse
  <2>4. answer' \in [Calls -> {"none", "ok", "err", "broken"}]
    <3>1. answer' = answer \/ \E a \in {"ok", "err", "broken"} : answer' = [answer EXCEPT ![c] = a]
      BY <1>9 DEF ReadResponse
    <3> QED BY <3>1
  <2> QED BY <1>9, <2>2, <2>3, <2>4 DEF ReadResponse
<1>10. CASE WaitForWorker(c)
  BY <1>10 DEF WaitForWorker, Verdict
<1>11. CASE Terminate(c)
  BY <1>11 DEF Terminate, Alive
<1>12. CASE ReapKilled(c)
  BY <1>12 DEF ReapKilled
<1>13. CASE ChildSetup(c)
  BY <1>13 DEF ChildSetup
<1>14. CASE ChildExec(c)
  BY <1>14 DEF ChildExec
<1>15. CASE WorkerReads(c)
  BY <1>15 DEF WorkerReads
<1>16. CASE WorkerAnswers(c)
  <2>1. ASSUME NEW kind \in {"event", "ok", "err", "cut"}, Send(c, kind)
        PROVE  response' \in [Calls -> Seq(Frame)]
    <3> DEFINE f == [kind |-> kind, id |-> id[c]]
    <3>1. f \in Frame
      BY FrameFacts
    <3> HIDE DEF f
    <3>2. Append(response[c], f) \in Seq(Frame)
      BY <3>1
    <3>3. response' = [response EXCEPT ![c] = Append(response[c], f)]
      BY <2>1 DEF Send, f
    <3> QED BY <3>2, <3>3
  <2>2. response' \in [Calls -> Seq(Frame)]
    BY <1>16, <2>1 DEF WorkerAnswers
  <2> QED BY <1>16, <2>2 DEF WorkerAnswers
<1>17. CASE WorkerExits(c)
  BY <1>17 DEF WorkerExits
<1>18. CASE WorkerEvent(c)
  <2>1. ASSUME NEW kind \in {"event", "ok", "err", "cut"}, Send(c, kind)
        PROVE  response' \in [Calls -> Seq(Frame)]
    <3> DEFINE f == [kind |-> kind, id |-> id[c]]
    <3>1. f \in Frame
      BY FrameFacts
    <3> HIDE DEF f
    <3>2. Append(response[c], f) \in Seq(Frame)
      BY <3>1
    <3>3. response' = [response EXCEPT ![c] = Append(response[c], f)]
      BY <2>1 DEF Send, f
    <3> QED BY <3>2, <3>3
  <2>2. response' \in [Calls -> Seq(Frame)]
    BY <1>18, <2>1 DEF WorkerEvent
  <2>3. sentEvents' \in [Calls -> Nat]
    BY <1>18 DEF WorkerEvent
  <2> QED BY <1>18, <2>2, <2>3 DEF WorkerEvent
<1>19. CASE WorkerKilled(c)
  <2>1. ASSUME NEW kind \in {"event", "ok", "err", "cut"}, Send(c, kind)
        PROVE  response' \in [Calls -> Seq(Frame)]
    <3> DEFINE f == [kind |-> kind, id |-> id[c]]
    <3>1. f \in Frame
      BY FrameFacts
    <3> HIDE DEF f
    <3>2. Append(response[c], f) \in Seq(Frame)
      BY <3>1
    <3>3. response' = [response EXCEPT ![c] = Append(response[c], f)]
      BY <2>1 DEF Send, f
    <3> QED BY <3>2, <3>3
  <2>2. response' \in [Calls -> Seq(Frame)]
    BY <1>19, <2>1 DEF WorkerKilled
  <2> QED BY <1>19, <2>2 DEF WorkerKilled
<1> QED BY <1>1, <1>2, <1>3, <1>4, <1>5, <1>6, <1>7, <1>8, <1>9, <1>10, <1>11, <1>12, <1>13,
       <1>14, <1>15, <1>16, <1>17, <1>18, <1>19 DEF ThreadStep, WorkerStep

\* Who holds the pipes: a worker comes and goes without touching the parent's
\* ends, and a thread lets go of its own before it waits or returns.
LEMMA RuntimeHoldersKept ==
  ASSUME RuntimeShape, holders \in Held, \A d \in Calls : LetGo(d), NEW c \in Calls,
         ThreadStep(c) \/ WorkerStep(c) \/ WorkerEvent(c) \/ WorkerKilled(c)
  PROVE  holders' \in Held /\ \A d \in Calls : LetGo(d)'
<1> USE DEF Goes, Returns, Works, Dies, NoThread, RuntimeShape, LetGo
<1> SUFFICES ASSUME NEW d \in Calls
             PROVE  holders' \in Held /\ LetGo(d)'
  OBVIOUS
<1>a. /\ Drop(holders, Parent, c, Ends) \in Held
      /\ d # c => Drop(holders, Parent, c, Ends)[d] = holders[d]
      /\ \A e \in Ends : Parent \notin Drop(holders, Parent, c, Ends)[c][e]
  BY DropFacts
<1>b. /\ Drop(holders, Parent, c, ChildEnds) \in Held
      /\ d # c => Drop(holders, Parent, c, ChildEnds)[d] = holders[d]
  BY DropFacts
<1>e. /\ DropAll(holders, Worker(c)) \in Held
      /\ \A e \in Ends : Parent \in DropAll(holders, Worker(c))[d][e] <=> Parent \in holders[d][e]
  BY DropAllFacts
<1>f. /\ Inherit(holders, Worker(c)) \in Held
      /\ \A e \in Ends : Parent \in Inherit(holders, Worker(c))[d][e] <=> Parent \in holders[d][e]
  BY InheritFacts
<1>1. CASE OpenRuntime(c)
  BY <1>1 DEF OpenRuntime
<1>2. CASE OpenPipes(c)
  <2>1. [e \in Ends |-> {Parent}] \in [Ends -> SUBSET Nat]
    BY DEF Parent
  <2>2. holders' \in Held
    BY <1>2, <2>1 DEF OpenPipes, Held
  <2>3. d # c => holders'[d] = holders[d]
    BY <1>2 DEF OpenPipes, Held
  <2> QED BY <1>2, <2>2, <2>3 DEF OpenPipes
<1>3. CASE Fork(c)
  BY <1>3, <1>a, <1>f DEF Fork
<1>4. CASE DropChildEnds(c)
  BY <1>4, <1>b DEF DropChildEnds
<1>5. CASE WaitUserns(c)
  BY <1>5 DEF WaitUserns
<1>6. CASE ConfigureIdMaps(c)
  BY <1>6 DEF ConfigureIdMaps
<1>7. CASE SendRequest(c)
  BY <1>7, <1>a DEF SendRequest, Broken
<1>8. CASE SendInput(c)
  BY <1>8, <1>a DEF SendInput, Broken
<1>9. CASE ReadResponse(c)
  BY <1>9, <1>a DEF ReadResponse
<1>10. CASE WaitForWorker(c)
  BY <1>10 DEF WaitForWorker, Verdict
<1>11. CASE Terminate(c)
  BY <1>11, <1>e DEF Terminate, Alive
<1>12. CASE ReapKilled(c)
  BY <1>12, <1>a DEF ReapKilled
<1>13. CASE ChildSetup(c)
  BY <1>13, <1>e DEF ChildSetup
<1>14. CASE ChildExec(c)
  <2> DEFINE h == [b \in Calls |-> [e \in Ends |->
             IF b = c /\ e \in {"requestRead", "responseWrite"} THEN holders[b][e]
             ELSE holders[b][e] \ {Worker(c)}]]
  <2>1. \A b \in Calls, e \in Ends : holders[b][e] \in SUBSET Nat
    BY DEF Held
  <2>2. h \in Held /\ \A e \in Ends : Parent \in h[d][e] <=> Parent \in holders[d][e]
    BY <2>1, CallNumbers DEF Held
  <2>3. holders' = h \/ holders' = DropAll(holders, Worker(c))
    BY <1>14 DEF ChildExec
  <2>4. UNCHANGED thread
    BY <1>14 DEF ChildExec
  <2> HIDE DEF h
  <2> QED BY <1>e, <2>2, <2>3, <2>4
<1>15. CASE WorkerReads(c)
  BY <1>15 DEF WorkerReads
<1>16. CASE WorkerAnswers(c)
  BY <1>16 DEF WorkerAnswers, Send
<1>17. CASE WorkerExits(c)
  BY <1>17, <1>e DEF WorkerExits
<1>18. CASE WorkerEvent(c)
  BY <1>18 DEF WorkerEvent, Send
<1>19. CASE WorkerKilled(c)
  BY <1>19, <1>e DEF WorkerKilled, Alive
<1> QED BY <1>1, <1>2, <1>3, <1>4, <1>5, <1>6, <1>7, <1>8, <1>9, <1>10, <1>11, <1>12, <1>13,
       <1>14, <1>15, <1>16, <1>17, <1>18, <1>19 DEF ThreadStep, WorkerStep

\* A thread and its worker move together.
LEMMA RuntimePlacesKept ==
  ASSUME RuntimeShape, NEW d \in Calls, CallPlaces(d), NEW c \in Calls,
         ThreadStep(c) \/ WorkerStep(c) \/ WorkerEvent(c) \/ WorkerKilled(c)
  PROVE  CallPlaces(d)'
<1> USE DEF Goes, Returns, Works, Dies, NoThread, RuntimeShape, CallPlaces, Forked
<1>1. CASE OpenRuntime(c)
  BY <1>1 DEF OpenRuntime
<1>2. CASE OpenPipes(c)
  BY <1>2 DEF OpenPipes
<1>3. CASE Fork(c)
  BY <1>3 DEF Fork
<1>4. CASE DropChildEnds(c)
  BY <1>4 DEF DropChildEnds
<1>5. CASE WaitUserns(c)
  BY <1>5 DEF WaitUserns
<1>6. CASE ConfigureIdMaps(c)
  BY <1>6 DEF ConfigureIdMaps
<1>7. CASE SendRequest(c)
  BY <1>7 DEF SendRequest, Broken
<1>8. CASE SendInput(c)
  BY <1>8 DEF SendInput, Broken
<1>9. CASE ReadResponse(c)
  BY <1>9 DEF ReadResponse
<1>10. CASE WaitForWorker(c)
  BY <1>10 DEF WaitForWorker, Verdict
<1>11. CASE Terminate(c)
  BY <1>11 DEF Terminate, Alive
<1>12. CASE ReapKilled(c)
  BY <1>12 DEF ReapKilled
<1>13. CASE ChildSetup(c)
  BY <1>13 DEF ChildSetup
<1>14. CASE ChildExec(c)
  BY <1>14 DEF ChildExec
<1>15. CASE WorkerReads(c)
  BY <1>15 DEF WorkerReads
<1>16. CASE WorkerAnswers(c)
  BY <1>16 DEF WorkerAnswers, Send
<1>17. CASE WorkerExits(c)
  BY <1>17 DEF WorkerExits
<1>18. CASE WorkerEvent(c)
  BY <1>18 DEF WorkerEvent, Send
<1>19. CASE WorkerKilled(c)
  BY <1>19 DEF WorkerKilled, Send, Alive
<1> QED BY <1>1, <1>2, <1>3, <1>4, <1>5, <1>6, <1>7, <1>8, <1>9, <1>10, <1>11, <1>12, <1>13,
       <1>14, <1>15, <1>16, <1>17, <1>18, <1>19 DEF ThreadStep, WorkerStep

\* What is in the pipe, handed on and answered.
LEMMA RuntimeFramesKept ==
  ASSUME RuntimeShape, NEW d \in Calls, CallPlaces(d), CallFrames(d), NEW c \in Calls,
         ThreadStep(c) \/ WorkerStep(c) \/ WorkerEvent(c) \/ WorkerKilled(c)
  PROVE  CallFrames(d)'
<1> USE DEF Goes, Returns, Works, Dies, NoThread, RuntimeShape, CallPlaces, CallFrames, Forked,
       Unanswered
<1>1. CASE OpenRuntime(c)
  BY <1>1 DEF OpenRuntime
<1>2. CASE OpenPipes(c)
  BY <1>2, NoFrames DEF OpenPipes
<1>3. CASE Fork(c)
  BY <1>3 DEF Fork
<1>4. CASE DropChildEnds(c)
  BY <1>4 DEF DropChildEnds
<1>5. CASE WaitUserns(c)
  BY <1>5 DEF WaitUserns
<1>6. CASE ConfigureIdMaps(c)
  BY <1>6 DEF ConfigureIdMaps
<1>7. CASE SendRequest(c)
  BY <1>7 DEF SendRequest, Broken
<1>8. CASE SendInput(c)
  BY <1>8 DEF SendInput, Broken
<1>9. CASE ReadResponse(c)
  <2>1. CASE d # c
    BY <1>9, <2>1 DEF ReadResponse
  <2>2. CASE d = c
    <3> DEFINE s == response[c]
    <3>1. /\ s \in Seq(Frame) /\ id[c] \in Nat /\ seen[c] \in Nat /\ sentEvents[c] \in Nat
          /\ Frames(s, id[c], seen[c], sentEvents[c])
      BY <2>2
    <3>2. s # <<>> =>
            /\ Head(s).kind = "event" =>
                 /\ Frames(Tail(s), id[c], seen[c] + 1, sentEvents[c])
                 /\ OpenFrames(s) <=> OpenFrames(Tail(s))
            /\ Head(s).kind # "event" =>
                 Tail(s) = <<>> /\ ~OpenFrames(s) /\ Frames(Tail(s), id[c], seen[c], sentEvents[c])
      BY <3>1, TakesFrame
    <3> QED BY <1>9, <2>2, <3>2 DEF ReadResponse
  <2> QED BY <2>1, <2>2
<1>10. CASE WaitForWorker(c)
  BY <1>10 DEF WaitForWorker, Verdict
<1>11. CASE Terminate(c)
  BY <1>11 DEF Terminate, Alive
<1>12. CASE ReapKilled(c)
  BY <1>12 DEF ReapKilled
<1>13. CASE ChildSetup(c)
  BY <1>13 DEF ChildSetup
<1>14. CASE ChildExec(c)
  BY <1>14 DEF ChildExec
<1>15. CASE WorkerReads(c)
  BY <1>15 DEF WorkerReads
<1>16. CASE WorkerAnswers(c)
  <2>1. CASE d # c
    BY <1>16, <2>1 DEF WorkerAnswers, Send
  <2>2. CASE d = c
    <3>1. ASSUME NEW kind \in {"ok", "err", "cut"}, Send(c, kind), OpenFrames(response[c])
          PROVE  Frames(response'[c], id[c], seen[c], sentEvents[c])
      BY <2>2, <3>1, SendsLast DEF Send
    <3>2. worker[c] = "run" /\ OpenFrames(response[c])
      BY <1>16, <2>2 DEF WorkerAnswers
    <3>3. Frames(response'[c], id[c], seen[c], sentEvents[c])
      BY <1>16, <2>2, <3>1, <3>2 DEF WorkerAnswers
    <3> QED BY <1>16, <2>2, <3>2, <3>3 DEF WorkerAnswers
  <2> QED BY <2>1, <2>2
<1>17. CASE WorkerExits(c)
  BY <1>17 DEF WorkerExits
<1>18. CASE WorkerEvent(c)
  <2>1. CASE d # c
    BY <1>18, <2>1 DEF WorkerEvent, Send
  <2>2. CASE d = c
    BY <1>18, <2>2, SendsEvent DEF WorkerEvent, Send
  <2> QED BY <2>1, <2>2
<1>19. CASE WorkerKilled(c)
  <2>1. CASE d # c
    BY <1>19, <2>1 DEF WorkerKilled, Send
  <2>2. CASE d = c
    <3>1. ASSUME NEW kind \in {"ok", "err", "cut"}, Send(c, kind), OpenFrames(response[c])
          PROVE  Frames(response'[c], id[c], seen[c], sentEvents[c])
      BY <2>2, <3>1, SendsLast DEF Send
    <3>2. worker[c] = "run" => OpenFrames(response[c])
      BY <1>19, <2>2 DEF WorkerKilled
    <3>3. Frames(response'[c], id[c], seen[c], sentEvents[c])
      BY <1>19, <2>2, <3>1, <3>2 DEF WorkerKilled
    <3> QED BY <1>19, <2>2, <3>2, <3>3 DEF WorkerKilled, Alive
  <2> QED BY <2>1, <2>2
<1> QED BY <1>1, <1>2, <1>3, <1>4, <1>5, <1>6, <1>7, <1>8, <1>9, <1>10, <1>11, <1>12, <1>13,
       <1>14, <1>15, <1>16, <1>17, <1>18, <1>19 DEF ThreadStep, WorkerStep

\* A number is given once.
LEMMA RuntimeUniqueKept ==
  ASSUME RuntimeShape, NumbersUnique, NEW c \in Calls,
         ThreadStep(c) \/ WorkerStep(c) \/ WorkerEvent(c) \/ WorkerKilled(c)
  PROVE  NumbersUnique'
<1> USE DEF Goes, Returns, Works, Dies, NoThread, RuntimeShape, NumbersUnique, NoId
<1>1. CASE OpenRuntime(c)
  BY <1>1 DEF OpenRuntime
<1>2. CASE OpenPipes(c)
  BY <1>2 DEF OpenPipes
<1>3. CASE Fork(c)
  BY <1>3 DEF Fork
<1>4. CASE DropChildEnds(c)
  BY <1>4 DEF DropChildEnds
<1>5. CASE WaitUserns(c)
  BY <1>5 DEF WaitUserns
<1>6. CASE ConfigureIdMaps(c)
  BY <1>6 DEF ConfigureIdMaps
<1>7. CASE SendRequest(c)
  BY <1>7 DEF SendRequest, Broken
<1>8. CASE SendInput(c)
  BY <1>8 DEF SendInput, Broken
<1>9. CASE ReadResponse(c)
  BY <1>9 DEF ReadResponse
<1>10. CASE WaitForWorker(c)
  BY <1>10 DEF WaitForWorker, Verdict
<1>11. CASE Terminate(c)
  BY <1>11 DEF Terminate, Alive
<1>12. CASE ReapKilled(c)
  BY <1>12 DEF ReapKilled
<1>13. CASE ChildSetup(c)
  BY <1>13 DEF ChildSetup
<1>14. CASE ChildExec(c)
  BY <1>14 DEF ChildExec
<1>15. CASE WorkerReads(c)
  BY <1>15 DEF WorkerReads
<1>16. CASE WorkerAnswers(c)
  BY <1>16 DEF WorkerAnswers, Send
<1>17. CASE WorkerExits(c)
  BY <1>17 DEF WorkerExits
<1>18. CASE WorkerEvent(c)
  BY <1>18 DEF WorkerEvent, Send
<1>19. CASE WorkerKilled(c)
  BY <1>19 DEF WorkerKilled, Send, Alive
<1> QED BY <1>1, <1>2, <1>3, <1>4, <1>5, <1>6, <1>7, <1>8, <1>9, <1>10, <1>11, <1>12, <1>13,
       <1>14, <1>15, <1>16, <1>17, <1>18, <1>19 DEF ThreadStep, WorkerStep

\* What the runtime keeps true between steps.
RuntimeInv ==
  /\ RuntimeShape /\ holders \in Held /\ NumbersUnique
  /\ \A c \in Calls : CallPlaces(c) /\ CallFrames(c) /\ LetGo(c)

\* It holds at the start, and no step breaks it.
LEMMA RuntimeStarts == RuntimeInit => RuntimeInv
<1> SUFFICES ASSUME RuntimeInit PROVE RuntimeInv
  OBVIOUS
<1>1. RuntimeShape
  BY DEF RuntimeInit, RuntimeShape, NoId
<1>2. holders \in Held /\ \A c \in Calls : LetGo(c)
  BY DEF RuntimeInit, Held, LetGo
<1>3. NumbersUnique
  BY DEF RuntimeInit, NumbersUnique, NoId
<1>4. \A c \in Calls : CallPlaces(c)
  BY DEF RuntimeInit, CallPlaces, Forked
<1>5. \A c \in Calls : CallFrames(c)
  BY NoFrames DEF RuntimeInit, CallFrames, OpenFrames
<1> QED BY <1>1, <1>2, <1>3, <1>4, <1>5 DEF RuntimeInv

LEMMA RuntimeStepKeeps == RuntimeInv /\ [RuntimeNext]_runtimeVars => RuntimeInv'
<1> SUFFICES ASSUME RuntimeInv, [RuntimeNext]_runtimeVars PROVE RuntimeInv'
  OBVIOUS
<1>1. CASE UNCHANGED runtimeVars
  BY <1>1 DEF runtimeVars, RuntimeInv, RuntimeShape, NumbersUnique, CallPlaces, CallFrames, LetGo
<1>2. ASSUME NEW c \in Calls,
             ThreadStep(c) \/ WorkerStep(c) \/ WorkerEvent(c) \/ WorkerKilled(c)
      PROVE  RuntimeInv'
  <2>1. RuntimeShape' /\ NumbersUnique'
    BY <1>2, RuntimeShapeKept, RuntimeUniqueKept DEF RuntimeInv
  <2>2. holders' \in Held /\ \A d \in Calls : LetGo(d)'
    BY <1>2, RuntimeHoldersKept DEF RuntimeInv
  <2>3. \A d \in Calls : CallPlaces(d)'
    BY <1>2, RuntimePlacesKept DEF RuntimeInv
  <2>4. \A d \in Calls : CallFrames(d)'
    BY <1>2, RuntimeFramesKept DEF RuntimeInv
  <2> QED BY <2>1, <2>2, <2>3, <2>4 DEF RuntimeInv
<1> QED BY <1>1, <1>2 DEF RuntimeNext

\* What the invariant says of calls.
LEMMA RuntimeInvExact == RuntimeInv => RuntimeCallsExact
<1> SUFFICES ASSUME RuntimeInv PROVE CallsMatch /\ NothingLeftBehind
  BY DEF RuntimeCallsExact
<1>1. ASSUME NEW c \in Calls
      PROVE  seen[c] <= sentEvents[c] /\ (returned[c] = "ok" => seen[c] = sentEvents[c])
  <2>1. seen[c] \in Nat /\ sentEvents[c] \in Nat /\ response[c] \in Seq(Frame)
    BY DEF RuntimeInv, RuntimeShape
  <2>2. Len(response[c]) \in Nat /\ (response[c] # <<>> => Len(response[c]) > 0)
    BY <2>1
  <2>3. seen[c] <= sentEvents[c]
    BY <2>1, <2>2 DEF RuntimeInv, CallFrames, Frames, OpenFrames
  <2>4. returned[c] = "ok" => response[c] = <<>>
    BY DEF RuntimeInv, CallFrames
  <2> QED BY <2>1, <2>3, <2>4, NoFrames DEF RuntimeInv, CallFrames
<1>2. CallsMatch
  BY <1>1 DEF CallsMatch, RuntimeInv, CallFrames, NumbersUnique
<1>3. NothingLeftBehind
  BY DEF NothingLeftBehind, RuntimeInv, CallPlaces, LetGo
<1> QED BY <1>2, <1>3

\* Of any number of calls at once, in any interleaving and whichever workers
\* are killed, a call returns an output only when its own worker said so and
\* ended well, with every event of it handed on, and a call that has returned
\* has left neither a worker nor a pipe end (runtime_ns.rs call_worker,
\* send_call_and_read_response, terminate_child).
THEOREM CallsAlwaysExact == RuntimeSpec => []RuntimeCallsExact
<1>1. RuntimeSpec => []RuntimeInv
  BY RuntimeStarts, RuntimeStepKeeps, PTL DEF RuntimeSpec
<1> QED BY <1>1, RuntimeInvExact, PTL
=============================================================================
