----------------------------- MODULE Configuration -----------------------------
(***************************************************************************)
(* Configuration documents (configuration.py): the effective one of each   *)
(* process and the profile files, which all processes of a user share.     *)
(* Saving looks, writes a temporary file and replaces; a process may die   *)
(* in between, and people edit profiles by hand.                           *)
(***************************************************************************)
EXTENDS Naturals

CONSTANTS
  Procs,
  Names,      \* names that _safe_profile_name() accepts
  Unsafe,     \* one that it does not
  Exported,   \* paths given to Export Driver Configuration
  Bodies,     \* what a document says besides its profile's name
  BadBodies,  \* those that the schema or the version check refuses
  MaxCalls    \* bound on the keywords called

ASSUME ConfigurationAssumption ==
  /\ BadBodies \subseteq Bodies /\ Unsafe \notin Names
  /\ Exported \cap Names = {} /\ MaxCalls \in Nat

Paths == Names \cup Exported
Package == "package_default"
Nobody == "nobody"

ASSUME OthersAreOthers == Package \notin Bodies \cup {Unsafe} /\ Nobody \notin Procs

Documents == [body : Bodies \cup {Package}, name : Names \cup {Unsafe, Package}]
PackagedDefault == [body |-> Package, name |-> Package]

\* What a file may hold that is no document.
Absent == [body |-> "no file"]
Torn == [body |-> "part of a text"]

\* validate()
Valid(text) ==
  /\ text \in Documents
  /\ text.body \notin BadBodies /\ text.name # Unsafe

VARIABLES
  file,       \* what each path holds
  temps,      \* temporary files: whose, for which path, and what they hold
  effective,  \* _effective of each process
  imported,   \* its sources are RUNTIME_IMPORT
  writing,    \* what each process is writing, and how far it is
  locked,     \* the packaged schema agrees with schema.lock
  edited,     \* the path was last written by hand (history)
  calls       \* keywords still to be called

vars == <<file, temps, effective, imported, writing, locked, edited, calls>>

NotWriting == [step |-> "idle", path |-> "no path", text |-> Torn]
Dead == [NotWriting EXCEPT !.step = "dead"]

Init ==
  /\ file = [path \in Paths |-> Absent]
  /\ temps = {}
  /\ effective = [p \in Procs |-> PackagedDefault]
  /\ imported = [p \in Procs |-> FALSE]
  /\ writing = [p \in Procs |-> Dead]
  /\ locked \in BOOLEAN
  /\ edited = [path \in Paths |-> FALSE]
  /\ calls = MaxCalls

\* A manager is made only from an intact schema.
Start(p) ==
  /\ writing[p] = Dead /\ locked
  /\ writing' = [writing EXCEPT ![p] = NotWriting]
  /\ effective' = [effective EXCEPT ![p] = PackagedDefault]
  /\ imported' = [imported EXCEPT ![p] = FALSE]
  /\ UNCHANGED <<file, temps, locked, edited, calls>>

Call(p) == writing[p] = NotWriting /\ calls > 0 /\ calls' = calls - 1

Takes(p, document, byImport) ==
  /\ effective' = [effective EXCEPT ![p] = document]
  /\ imported' = [imported EXCEPT ![p] = byImport]

\* Mutant: the document is validated after it has become effective.
Bug_Apply(p, text) ==
  IF text \in Documents THEN Takes(p, text, TRUE) ELSE UNCHANGED <<effective, imported>>

\* apply(): a text that is no valid document raises and changes nothing.
Apply(p, text) ==
  IF Valid(text) THEN Takes(p, text, TRUE) ELSE UNCHANGED <<effective, imported>>

\* import_json() of a dictionary or a text.
Import(p) ==
  /\ Call(p)
  /\ \E document \in Documents : Apply(p, document)
  /\ UNCHANGED <<file, temps, writing, locked, edited>>

\* import_json() of a path, and load_profile().
Load(p, path) ==
  /\ Call(p)
  /\ file[path] # Absent
  /\ Apply(p, file[path])
  /\ UNCHANGED <<file, temps, writing, locked, edited>>

Reset(p) ==
  /\ Call(p)
  /\ Takes(p, PackagedDefault, FALSE)
  /\ UNCHANGED <<file, temps, writing, locked, edited>>

DeleteProfile(p, name) ==
  /\ Call(p)
  /\ file' = [file EXCEPT ![name] = Absent]
  /\ edited' = [edited EXCEPT ![name] = FALSE]
  /\ UNCHANGED <<temps, effective, imported, writing, locked>>
-----------------------------------------------------------------------------
(* Writing.                                                                *)

\* save_profile() up to the write: the copy has the profile's name.
SaveProfile(p, name) ==
  /\ Call(p)
  /\ \E overwrite \in BOOLEAN : file[name] = Absent \/ overwrite
  /\ writing' = [writing EXCEPT ![p] =
       [step |-> "open", path |-> name, text |-> [effective[p] EXCEPT !.name = name]]]
  /\ UNCHANGED <<file, temps, effective, imported, locked, edited>>

ExportJson(p, path) ==
  /\ Call(p)
  /\ writing' = [writing EXCEPT ![p] = [step |-> "open", path |-> path, text |-> effective[p]]]
  /\ UNCHANGED <<file, temps, effective, imported, locked, edited>>

Temp(p, text) == [of |-> p, path |-> writing[p].path, text |-> text]
Steps(p, from, to) ==
  /\ writing[p].step = from
  /\ writing' = [writing EXCEPT ![p] = IF to = "idle" THEN NotWriting ELSE [@ EXCEPT !.step = to]]

\* Mutant: the file itself is opened and then written.
Bug_OpenTemporary(p) ==
  /\ Steps(p, "open", "write")
  /\ file' = [file EXCEPT ![writing[p].path] = Torn]
  /\ temps' = temps \cup {Temp(p, Torn)}
  /\ UNCHANGED <<effective, imported, locked, edited, calls>>

\* mkstemp() in the directory of the path.
OpenTemporary(p) ==
  /\ Steps(p, "open", "write")
  /\ temps' = temps \cup {Temp(p, Torn)}
  /\ UNCHANGED <<file, effective, imported, locked, edited, calls>>

\* write, flush and fsync
WriteTemporary(p) ==
  /\ Steps(p, "write", "replace")
  /\ temps' = (temps \ {Temp(p, Torn)}) \cup {Temp(p, writing[p].text)}
  /\ UNCHANGED <<file, effective, imported, locked, edited, calls>>

Replace(p) ==
  /\ Steps(p, "replace", "idle")
  /\ file' = [file EXCEPT ![writing[p].path] = writing[p].text]
  /\ edited' = [edited EXCEPT ![writing[p].path] = FALSE]
  /\ temps' = temps \ {Temp(p, writing[p].text)}
  /\ UNCHANGED <<effective, imported, locked, calls>>

\* Mutant: the temporary file is unlinked only when replacing it fails.
Bug_WriteFails(p) ==
  \/ /\ Steps(p, "write", "idle")
     /\ UNCHANGED <<file, temps, effective, imported, locked, edited, calls>>
  \/ /\ Steps(p, "replace", "idle")
     /\ temps' = temps \ {Temp(p, writing[p].text)}
     /\ UNCHANGED <<file, effective, imported, locked, edited, calls>>

\* Whichever of the steps raises, the temporary file goes (unlinking it is taken to
\* succeed).
WriteFails(p) ==
  \/ /\ Steps(p, "open", "idle")
     /\ UNCHANGED <<file, temps, effective, imported, locked, edited, calls>>
  \/ /\ Steps(p, "write", "idle") \/ Steps(p, "replace", "idle")
     /\ temps' = temps \ {Temp(p, Torn), Temp(p, writing[p].text)}
     /\ UNCHANGED <<file, effective, imported, locked, edited, calls>>
-----------------------------------------------------------------------------
(* What happens to a process and to its files.                             *)

Crash(p) ==
  /\ writing[p] # Dead
  /\ writing' = [writing EXCEPT ![p] = Dead]
  /\ temps' = {IF t.of = p THEN [t EXCEPT !.of = Nobody] ELSE t : t \in temps}
  /\ UNCHANGED <<file, effective, imported, locked, edited, calls>>

EditByHand(path) ==
  /\ calls > 0 /\ calls' = calls - 1
  /\ \E text \in Documents \cup {Torn} : file' = [file EXCEPT ![path] = text]
  /\ edited' = [edited EXCEPT ![path] = TRUE]
  /\ UNCHANGED <<temps, effective, imported, writing, locked>>

Next ==
  \/ \E p \in Procs :
       \/ Start(p) \/ Import(p) \/ Reset(p) \/ Crash(p)
       \/ \E path \in Paths : Load(p, path)
       \/ \E name \in Names : SaveProfile(p, name) \/ DeleteProfile(p, name)
       \/ \E path \in Exported : ExportJson(p, path)
       \/ OpenTemporary(p) \/ WriteTemporary(p) \/ Replace(p) \/ WriteFails(p)
  \/ \E path \in Paths : EditByHand(path)

Spec == Init /\ [][Next]_vars
-----------------------------------------------------------------------------
TypeOK ==
  /\ file \in [Paths -> Documents \cup {Absent, Torn}]
  /\ temps \subseteq [of : Procs \cup {Nobody}, path : Paths, text : Documents \cup {Torn}]
  /\ effective \in [Procs -> Documents] /\ imported \in [Procs -> BOOLEAN]
  /\ \A p \in Procs : writing[p].step \in {"dead", "idle", "open", "write", "replace"}
  /\ locked \in BOOLEAN /\ edited \in [Paths -> BOOLEAN] /\ calls \in 0..MaxCalls

\* What a process works with is a document that validates, whatever it found in a
\* file, and comes from the package unless it was imported.
EffectiveIsValid ==
  \A p \in Procs :
    /\ Valid(effective[p])
    /\ ~imported[p] => effective[p] = PackagedDefault

\* A profile that nobody edited is a whole valid document of its own name, at every
\* moment of a save, after a crash in it, and when two processes save the same one.
ProfilesAreWhole ==
  \A path \in Paths :
    file[path] # Absent /\ ~edited[path] =>
      /\ Valid(file[path])
      /\ path \in Names => file[path].name = path

\* A temporary file is left behind by nobody but a process that died.
NoLitter ==
  \A t \in temps :
    t.of # Nobody => writing[t.of].step \in {"write", "replace"} /\ writing[t.of].path = t.path
=============================================================================
