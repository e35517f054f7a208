-------------------------- MODULE ConfigurationProofs --------------------------
(***************************************************************************)
(* For any number of processes, profiles and documents: what is effective  *)
(* is valid, profiles that nobody edited are whole, and nobody leaves a    *)
(* temporary file behind but a process that died.                          *)
(*                                                                         *)
(* ProfilesAreWhole is not inductive: a file is replaced by what a process *)
(* is writing, which TextIsReady says is valid.  NoLitter is not either: a *)
(* process that ends its writing must have no temporary file but the one   *)
(* it unlinks, which TempIsOfTheWriter says.                               *)
(***************************************************************************)
EXTENDS Configuration, TLAPS

Steps3 == {"open", "write", "replace"}
Writings == [step : Steps3, path : Paths, text : Documents]

\* What is being written will be a valid document, of its path's name when the
\* path is a profile.
TextIsReady ==
  \A p \in Procs :
    writing[p].step \in Steps3 =>
      /\ Valid(writing[p].text)
      /\ writing[p].path \in Names => writing[p].text.name = writing[p].path

\* The temporary file of a living process holds nothing yet or all of its text.
TempIsOfTheWriter ==
  \A t \in temps :
    t.of # Nobody =>
      /\ t.path = writing[t.of].path
      /\ \/ writing[t.of].step = "write" /\ t.text = Torn
         \/ writing[t.of].step = "replace" /\ t.text = writing[t.of].text

Types ==
  /\ TypeOK
  /\ writing \in [Procs -> Writings \cup {NotWriting, Dead}]

IInv == Types /\ TextIsReady /\ TempIsOfTheWriter /\ EffectiveIsValid /\ ProfilesAreWhole

USE ConfigurationAssumption, OthersAreOthers

\* A missing or torn file is no document.
LEMMA NoDocument == Torn \notin Documents /\ Absent \notin Documents /\ Torn # Absent
<1>1. \A d \in Documents : DOMAIN d = {"body", "name"}
  BY DEF Documents
<1>2. DOMAIN Torn = {"body"} /\ DOMAIN Absent = {"body"}
  BY DEF Torn, Absent
<1>3. Torn.body # Absent.body
  BY DEF Torn, Absent
<1> QED BY <1>1, <1>2, <1>3

\* The packaged default validates.
LEMMA DefaultIsValid == PackagedDefault \in Documents /\ Valid(PackagedDefault)
BY DEF PackagedDefault, Documents, Valid

\* The two resting places of a writer are told apart from writing.
LEMMA Resting ==
  /\ NotWriting.step = "idle" /\ Dead.step = "dead" /\ NotWriting # Dead
  /\ \A w \in Writings : w.step \in Steps3 /\ w # NotWriting /\ w # Dead
<1>1. NotWriting.step = "idle" /\ Dead.step = "dead"
  BY DEF NotWriting, Dead
<1>2. \A w \in Writings : w.step \in Steps3
  BY DEF Writings
<1> QED BY <1>1, <1>2 DEF Steps3

\* At the start there are no files and no process.
LEMMA InitOK == Init => IInv
<1> SUFFICES ASSUME Init PROVE IInv
  OBVIOUS
<1> USE DEF Init
<1>1. Types
  <2>1. TypeOK
    BY DefaultIsValid, Resting DEF TypeOK
  <2>2. writing \in [Procs -> Writings \cup {NotWriting, Dead}]
    OBVIOUS
  <2> QED BY <2>1, <2>2 DEF Types
<1>2. TextIsReady
  BY Resting DEF TextIsReady, Steps3
<1>3. TempIsOfTheWriter /\ EffectiveIsValid
  BY DefaultIsValid DEF TempIsOfTheWriter, EffectiveIsValid
<1>4. ProfilesAreWhole
  BY DEF ProfilesAreWhole
<1> QED BY <1>1, <1>2, <1>3, <1>4 DEF IInv

\* A call that takes a document which validates, or none, keeps what is effective
\* valid and touches no file.
LEMMA ApplyKeeps ==
  ASSUME IInv, NEW p \in Procs, NEW text, Apply(p, text),
         UNCHANGED <<file, temps, writing, locked, edited>>, calls' \in 0..MaxCalls
  PROVE  IInv'
<1>1. /\ effective \in [Procs -> Documents] /\ imported \in [Procs -> BOOLEAN]
      /\ \A q \in Procs : Valid(effective[q]) /\ (~imported[q] => effective[q] = PackagedDefault)
  BY DEF IInv, Types, TypeOK, EffectiveIsValid
<1>2. /\ effective' \in [Procs -> Documents] /\ imported' \in [Procs -> BOOLEAN]
      /\ EffectiveIsValid'
  <2>1. CASE Valid(text)
    <3>1. text \in Documents
      BY <2>1 DEF Valid
    <3>2. /\ effective' = [effective EXCEPT ![p] = text]
          /\ imported' = [imported EXCEPT ![p] = TRUE]
      BY <2>1 DEF Apply, Takes
    <3>3. \A q \in Procs : /\ effective'[q] = IF q = p THEN text ELSE effective[q]
                          /\ imported'[q] = IF q = p THEN TRUE ELSE imported[q]
      BY <1>1, <3>2
    <3>4. EffectiveIsValid'
      BY <1>1, <2>1, <3>3 DEF EffectiveIsValid
    <3> QED BY <1>1, <3>1, <3>2, <3>4
  <2>2. CASE ~Valid(text)
    <3>1. effective' = effective /\ imported' = imported
      BY <2>2 DEF Apply
    <3> QED BY <1>1, <3>1 DEF EffectiveIsValid
  <2> QED BY <2>1, <2>2
<1>3. Types'
  BY <1>2 DEF IInv, Types, TypeOK
<1>4. TextIsReady' /\ TempIsOfTheWriter' /\ ProfilesAreWhole'
  BY DEF IInv, TextIsReady, TempIsOfTheWriter, ProfilesAreWhole
<1> QED BY <1>2, <1>3, <1>4 DEF IInv

\* Every step preserves the invariant.
LEMMA InductiveStep == IInv /\ [Next]_vars => IInv'
<1> SUFFICES ASSUME IInv, [Next]_vars PROVE IInv'
  OBVIOUS
<1> USE DEF IInv
<1> USE NoDocument, Resting
<1>0. ASSUME NEW p \in Procs, Call(p) PROVE calls' \in 0..MaxCalls
  BY <1>0 DEF Call, Types, TypeOK
<1>1. ASSUME NEW p \in Procs, Start(p) PROVE IInv'
  <2> USE <1>1, DefaultIsValid DEF Start
  <2>1. Types' BY DEF Types, TypeOK
  <2>2. TextIsReady' BY DEF TextIsReady, Types, Steps3
  <2>3. TempIsOfTheWriter' BY DEF TempIsOfTheWriter, Types
  <2>4. EffectiveIsValid' /\ ProfilesAreWhole'
    BY DEF EffectiveIsValid, ProfilesAreWhole, Types, TypeOK
  <2> QED BY <2>1, <2>2, <2>3, <2>4
<1>2. ASSUME NEW p \in Procs, Import(p) PROVE IInv'
  BY <1>0, <1>2, ApplyKeeps DEF Import
<1>3. ASSUME NEW p \in Procs, NEW path \in Paths, Load(p, path) PROVE IInv'
  BY <1>0, <1>3, ApplyKeeps DEF Load
<1>4. ASSUME NEW p \in Procs, Reset(p) PROVE IInv'
  <2> USE <1>0, <1>4, DefaultIsValid DEF Reset, Takes
  <2>1. Types' BY DEF Types, TypeOK
  <2>2. EffectiveIsValid' BY DEF EffectiveIsValid, Types, TypeOK
  <2>3. TextIsReady' /\ TempIsOfTheWriter' /\ ProfilesAreWhole'
    BY DEF TextIsReady, TempIsOfTheWriter, ProfilesAreWhole
  <2> QED BY <2>1, <2>2, <2>3
<1>5. ASSUME NEW p \in Procs, NEW name \in Names, DeleteProfile(p, name) PROVE IInv'
  <2> USE <1>0, <1>5 DEF DeleteProfile, Paths
  <2>1. Types' BY DEF Types, TypeOK
  <2>2. ProfilesAreWhole' BY DEF ProfilesAreWhole, Types, TypeOK
  <2>3. TextIsReady' /\ TempIsOfTheWriter' /\ EffectiveIsValid'
    BY DEF TextIsReady, TempIsOfTheWriter, EffectiveIsValid
  <2> QED BY <2>1, <2>2, <2>3
<1>6. ASSUME NEW p \in Procs, NEW name \in Names, SaveProfile(p, name) PROVE IInv'
  <2> DEFINE text == [effective[p] EXCEPT !.name = name]
  <2>0. /\ text \in Documents /\ Valid(text) /\ text.name = name /\ name \in Paths
        /\ writing' = [writing EXCEPT ![p] = [step |-> "open", path |-> name, text |-> text]]
        /\ writing[p] = NotWriting
        /\ UNCHANGED <<file, temps, effective, imported, locked, edited>>
    BY <1>6 DEF SaveProfile, Call, Types, TypeOK, Documents, EffectiveIsValid, Valid, Paths
  <2> HIDE DEF text
  <2>1. Types' BY <1>0, <1>6, <2>0 DEF SaveProfile, Types, TypeOK, Writings, Steps3
  <2>2. TextIsReady' BY <2>0 DEF TextIsReady, Types
  <2>3. TempIsOfTheWriter' BY <2>0 DEF TempIsOfTheWriter, Types
  <2>4. EffectiveIsValid' /\ ProfilesAreWhole' BY <2>0 DEF EffectiveIsValid, ProfilesAreWhole
  <2> QED BY <2>1, <2>2, <2>3, <2>4
<1>7. ASSUME NEW p \in Procs, NEW path \in Exported, ExportJson(p, path) PROVE IInv'
  <2>0. /\ effective[p] \in Documents /\ Valid(effective[p]) /\ path \in Paths \ Names
        /\ writing' = [writing EXCEPT ![p] =
                         [step |-> "open", path |-> path, text |-> effective[p]]]
        /\ writing[p] = NotWriting
        /\ UNCHANGED <<file, temps, effective, imported, locked, edited>>
    BY <1>7 DEF ExportJson, Call, Types, TypeOK, EffectiveIsValid, Paths
  <2>1. Types' BY <1>0, <1>7, <2>0 DEF ExportJson, Types, TypeOK, Writings, Steps3
  <2>2. TextIsReady' BY <2>0 DEF TextIsReady, Types
  <2>3. TempIsOfTheWriter' BY <2>0 DEF TempIsOfTheWriter, Types
  <2>4. EffectiveIsValid' /\ ProfilesAreWhole' BY <2>0 DEF EffectiveIsValid, ProfilesAreWhole
  <2> QED BY <2>1, <2>2, <2>3, <2>4
<1>8. ASSUME NEW p \in Procs, OpenTemporary(p) PROVE IInv'
  <2> USE <1>8 DEF OpenTemporary, Steps, Temp
  <2>0. writing[p] \in Writings BY DEF Types, Steps3
  <2>1. Types' BY <2>0 DEF Types, TypeOK, Writings, Steps3
  <2>2. TextIsReady' BY <2>0 DEF TextIsReady, Types, Writings, Steps3
  <2>3. TempIsOfTheWriter' BY <2>0 DEF TempIsOfTheWriter, Types, Writings
  <2>4. EffectiveIsValid' /\ ProfilesAreWhole' BY DEF EffectiveIsValid, ProfilesAreWhole
  <2> QED BY <2>1, <2>2, <2>3, <2>4
<1>9. ASSUME NEW p \in Procs, WriteTemporary(p) PROVE IInv'
  <2> USE <1>9 DEF WriteTemporary, Steps, Temp
  <2>0. writing[p] \in Writings BY DEF Types, Steps3
  <2>1. Types' BY <2>0 DEF Types, TypeOK, Writings, Steps3
  <2>2. TextIsReady' BY <2>0 DEF TextIsReady, Types, Writings, Steps3
  <2>3. TempIsOfTheWriter' BY <2>0 DEF TempIsOfTheWriter, Types, TypeOK, Writings
  <2>4. EffectiveIsValid' /\ ProfilesAreWhole' BY DEF EffectiveIsValid, ProfilesAreWhole
  <2> QED BY <2>1, <2>2, <2>3, <2>4
<1>10. ASSUME NEW p \in Procs, Replace(p) PROVE IInv'
  <2> USE <1>10 DEF Replace, Steps, Temp
  <2>0. writing[p] \in Writings BY DEF Types, Steps3
  <2>1. Types' BY <2>0 DEF Types, TypeOK, Writings, Steps3
  <2>2. TextIsReady' BY <2>0 DEF TextIsReady, Types, Writings, Steps3
  <2>3. TempIsOfTheWriter' BY <2>0 DEF TempIsOfTheWriter, Types, TypeOK, Writings
  <2>4. ProfilesAreWhole'
    BY <2>0 DEF ProfilesAreWhole, TextIsReady, Types, TypeOK, Writings, Steps3
  <2>5. EffectiveIsValid' BY DEF EffectiveIsValid
  <2> QED BY <2>1, <2>2, <2>3, <2>4, <2>5
<1>11. ASSUME NEW p \in Procs, WriteFails(p) PROVE IInv'
  <2> USE <1>11 DEF WriteFails, Steps, Temp
  <2>0. writing[p] \in Writings BY DEF Types, Steps3
  <2>1. Types' BY <2>0 DEF Types, TypeOK
  <2>2. TextIsReady' BY <2>0 DEF TextIsReady, Types, Steps3
  <2>3. TempIsOfTheWriter' BY <2>0 DEF TempIsOfTheWriter, Types, TypeOK, Writings
  <2>4. EffectiveIsValid' /\ ProfilesAreWhole' BY DEF EffectiveIsValid, ProfilesAreWhole
  <2> QED BY <2>1, <2>2, <2>3, <2>4
<1>12. ASSUME NEW p \in Procs, Crash(p) PROVE IInv'
  <2> USE <1>12 DEF Crash
  <2>1. Types' BY DEF Types, TypeOK
  <2>2. TextIsReady' BY DEF TextIsReady, Types, Steps3
  <2>3. TempIsOfTheWriter' BY DEF TempIsOfTheWriter, Types, TypeOK
  <2>4. EffectiveIsValid' /\ ProfilesAreWhole' BY DEF EffectiveIsValid, ProfilesAreWhole
  <2> QED BY <2>1, <2>2, <2>3, <2>4
<1>13. ASSUME NEW path \in Paths, EditByHand(path) PROVE IInv'
  <2> USE <1>13 DEF EditByHand
  <2>1. Types' BY DEF Types, TypeOK
  <2>2. ProfilesAreWhole' BY DEF ProfilesAreWhole, Types, TypeOK
  <2>3. TextIsReady' /\ TempIsOfTheWriter' /\ EffectiveIsValid'
    BY DEF TextIsReady, TempIsOfTheWriter, EffectiveIsValid
  <2> QED BY <2>1, <2>2, <2>3
<1>14. CASE UNCHANGED vars
  BY <1>14 DEF vars, Types, TypeOK, TextIsReady, TempIsOfTheWriter, EffectiveIsValid,
    ProfilesAreWhole, Valid
<1> QED
  BY <1>1, <1>2, <1>3, <1>4, <1>5, <1>6, <1>7, <1>8, <1>9, <1>10, <1>11, <1>12, <1>13,
     <1>14 DEF Next

\* The invariant holds in every reachable state.
LEMMA Inductive == Spec => []IInv
BY InitOK, InductiveStep, PTL DEF Spec

\* What a process works with validates, whatever the files hold (apply()).
THEOREM AlwaysEffective == Spec => []EffectiveIsValid
BY Inductive, PTL DEF IInv

\* At every moment of a save, after a crash in it and when processes save the same
\* profile, a profile nobody edited is a whole valid document (_atomic_write_json()).
THEOREM AlwaysWhole == Spec => []ProfilesAreWhole
BY Inductive, PTL DEF IInv

\* A temporary file belongs to a process that is writing it, or to one that died.
THEOREM NeverLitters == Spec => []NoLitter
<1>1. IInv => NoLitter
  BY DEF IInv, TempIsOfTheWriter, NoLitter
<1> QED BY Inductive, <1>1, PTL
=============================================================================
