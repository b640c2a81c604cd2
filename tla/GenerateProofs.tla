---------------------------- MODULE GenerateProofs ----------------------------
(***************************************************************************)
(* What is proved of the generate command, for any schema, any names, any  *)
(* edits of the user and any change of the query file, with the command    *)
(* killed at any step: every invariant the runs check.                     *)
(*                                                                         *)
(* ModelInv (OwnInv, TypeInv, FitInv) is the inductive invariant of the    *)
(* model files, QueryInv (OwnInv, TypeInv, BindInv, ExtInv) that of the    *)
(* query files.  A theorem names the hypotheses on the constants it needs: *)
(* where one is false the code does not keep what the theorem says, and    *)
(* Generate says at each which lines depend on it.                         *)
(***************************************************************************)
EXTENDS Generate, ListFacts

IsFile(file) ==
  /\ DOMAIN file = {"state", "main", "ext", "consts", "imports", "own"}
  /\ IsGo(file)

\* The user's tags are those of fields the struct has.
Tagged(file, own) == own.tags \subseteq FieldNames(file.main)

\* Every file is none, torn or a Go file with the user's code.
FilesInv ==
  /\ DOMAIN models = ModelFiles /\ DOMAIN mine = ModelFiles
  /\ \A f \in ModelFiles : DOMAIN mine[f] = {"ext", "own", "tags", "blocks"}
  /\ \A f \in ModelFiles :
       \/ models[f] = NoFile /\ mine[f] = Nothing
       \/ models[f] = Torn
       \/ /\ IsFile(models[f])
          /\ KeepsFields(models[f], mine[f])
          /\ Tagged(models[f], mine[f])

\* Only the struct of a table has tags.
OnlyTablesTagged == \A o \in ModelObjects \ Tables : mine[ModelFile[o]].tags = {}

\* The text about to be written has the user's code, too.
CommandInv ==
  /\ DOMAIN cmd = {"pc", "clean", "seen", "tables", "todo", "queries", "extensions", "text"}
  /\ cmd.pc \in {"models", "writeModel"} => cmd.todo \in Seq(ModelObjects)
  /\ cmd.pc = "writeModel" =>
       /\ cmd.todo # <<>>
       /\ models[ModelFile[Head(cmd.todo)]] = Torn
       /\ IsFile(cmd.text)
       /\ KeepsFields(cmd.text, mine[ModelFile[Head(cmd.todo)]])

OwnInv == FilesInv /\ OnlyTablesTagged /\ CommandInv
-----------------------------------------------------------------------------
LEMMA ObjectFiles == \A o \in ModelObjects : ModelFile[o] \in ModelFiles
BY NamesAssumption DEF ModelFiles, Range

LEMMA OwnFile == \A o, p \in ModelObjects : ModelFile[o] = ModelFile[p] => o = p
BY NamesAssumption DEF IsInjective

LEMMA HeadFile ==
  ASSUME NEW todo \in Seq(ModelObjects), todo # <<>>
  PROVE  Head(todo) \in ModelObjects /\ ModelFile[Head(todo)] \in ModelFiles
<1>1. Head(todo) \in ModelObjects OBVIOUS
<1> QED BY <1>1, ObjectFiles

\* A file that is new holds none of its user's code, and needs none.
LEMMA NewModelKeeps ==
  ASSUME NEW o \in ModelObjects, NEW def
  PROVE  /\ IsFile(NewModel(o, def))
         /\ KeepsFields(NewModel(o, def), Nothing)
<1>1. PICK main, consts, imports : NewModel(o, def) = GoFile(main, <<>>, consts, imports, {})
  BY NamesAssumption DEF NewModel, ModelObjects
<1>2. /\ GoFile(main, <<>>, consts, imports, {}).ext = <<>>
      /\ GoFile(main, <<>>, consts, imports, {}).own = {}
      /\ IsFile(GoFile(main, <<>>, consts, imports, {}))
  BY DEF GoFile, IsFile, IsGo
<1> QED
  BY <1>1, <1>2 DEF KeepsFields, Nothing

\* A table's file: only the struct and the imports change ...
LEMMA MergeTableFileParts ==
  ASSUME NEW file, NEW columns, IsFile(file)
  PROVE  /\ IsFile(MergeTableFile(file, columns))
         /\ MergeTableFile(file, columns).main = TableMain(file, columns)
         /\ MergeTableFile(file, columns).ext = file.ext
         /\ MergeTableFile(file, columns).own = file.own
         /\ MergeTableFile(file, columns).consts = file.consts
<1> DEFINE main   == TableMain(file, columns)
           needed == FilterImports(main, ImportsOf(columns))
           cut    == RemoveUnusedImports([file EXCEPT !.main = main], needed)
<1> HIDE DEF main, needed
<1>1. /\ IsFile(cut) /\ cut.main = main /\ cut.ext = file.ext /\ cut.own = file.own
      /\ cut.consts = file.consts
  BY DEF RemoveUnusedImports, IsFile, IsGo
<1> HIDE DEF cut
<1>2. MergeTableFile(file, columns) = EnsureImports(cut, needed)
  BY DEF MergeTableFile, cut, needed, main
<1>3. /\ IsFile(EnsureImports(cut, needed))
      /\ EnsureImports(cut, needed).main = main
      /\ EnsureImports(cut, needed).ext = file.ext
      /\ EnsureImports(cut, needed).own = file.own
      /\ EnsureImports(cut, needed).consts = file.consts
  BY <1>1 DEF EnsureImports, IsFile, IsGo
<1> QED
  BY <1>2, <1>3 DEF main

\* ... and the fields that are still there keep their tags.
LEMMA TableMainKeeps ==
  ASSUME NEW file, NEW own, NEW columns, KeepsFields(file, own), Tagged(file, own),
         NEW i \in DOMAIN TableMain(file, columns),
         TableMain(file, columns)[i].name \in own.tags
  PROVE  TableMain(file, columns)[i].tag = "own"
<1> DEFINE f == Uncovered(file, columns)[i]
           tags == {g.tag : g \in {h \in Range(file.main) : h.name = f.name /\ h.tag # "none"}}
<1>1. /\ TableMain(file, columns)[i].name = f.name
      /\ TableMain(file, columns)[i].tag = ExistingTag(file, f)
  BY DEF TableMain
<1>2. ExistingTag(file, f) = IF tags = {} THEN f.tag ELSE CHOOSE tag \in tags : TRUE
  BY DEF ExistingTag
<1>3. PICK j \in DOMAIN file.main : file.main[j].name = f.name
  BY <1>1 DEF Tagged, FieldNames, Range
<1>4. \A k \in DOMAIN file.main : file.main[k].name = f.name => file.main[k].tag = "own"
  BY <1>1 DEF KeepsFields
<1>5. "own" \in tags
  BY <1>3, <1>4 DEF Range
<1>6. tags \subseteq {"own"}
  BY <1>4 DEF Range
<1> HIDE DEF tags, f
<1>7. (CHOOSE tag \in tags : TRUE) \in tags
  BY <1>5
<1> QED
  BY <1>1, <1>2, <1>5, <1>6, <1>7

\* The merge leaves the user's code where it is.
LEMMA MergedModelKeeps ==
  ASSUME NEW o \in ModelObjects, NEW file, NEW own, NEW def,
         IsFile(file), KeepsFields(file, own), Tagged(file, own),
         o \notin Tables => own.tags = {}
  PROVE  /\ IsFile(MergedModel(o, file, def))
         /\ KeepsFields(MergedModel(o, file, def), own)
<1>1. CASE o \in Enums
  <2>1. MergedModel(o, file, def) = MergeEnumFile(file, def)
    BY <1>1, NamesAssumption DEF MergedModel
  <2>2. /\ IsFile(MergeEnumFile(file, def))
        /\ MergeEnumFile(file, def).main = file.main
        /\ MergeEnumFile(file, def).ext = file.ext
        /\ MergeEnumFile(file, def).own = file.own
    BY DEF MergeEnumFile, IsFile, IsGo
  <2> QED
    BY <2>1, <2>2 DEF KeepsFields
<1>2. CASE o \in Composites
  <2>1. MergedModel(o, file, def) = MergeStructFile(file, def)
    BY <1>2, NamesAssumption DEF MergedModel
  <2>2. own.tags = {}
    BY <1>2, NamesAssumption
  <2>3. /\ IsFile(MergeStructFile(file, def))
        /\ MergeStructFile(file, def).ext = file.ext
        /\ MergeStructFile(file, def).own = file.own
    BY DEF MergeStructFile, IsFile, IsGo
  <2> QED
    BY <2>1, <2>2, <2>3 DEF KeepsFields
<1>3. CASE o \in Tables
  <2>1. MergedModel(o, file, def) = MergeTableFile(file, def)
    BY <1>3, NamesAssumption DEF MergedModel
  <2> QED
    BY <2>1, MergeTableFileParts, TableMainKeeps DEF KeepsFields
<1> QED
  BY <1>1, <1>2, <1>3 DEF ModelObjects
-----------------------------------------------------------------------------
LEMMA InitOwn == Init => OwnInv
<1> SUFFICES ASSUME Init PROVE OwnInv
  OBVIOUS
<1>1. FilesInv
  BY DEF Init, FilesInv, Nothing
<1>2. OnlyTablesTagged
  BY NamesAssumption DEF Init, OnlyTablesTagged, Nothing, ModelFiles, Range
<1>3. CommandInv
  BY DEF Init, CommandInv, NoCommand
<1> QED
  BY <1>1, <1>2, <1>3 DEF OwnInv

\* A step that leaves the models alone, and hands the command no text.
LEMMA RestOwn ==
  ASSUME OwnInv, UNCHANGED <<models, mine>>,
         DOMAIN cmd' = {"pc", "clean", "seen", "tables", "todo", "queries", "extensions", "text"},
         cmd'.pc # "writeModel",
         cmd'.pc = "models" => cmd'.todo \in Seq(ModelObjects)
  PROVE  OwnInv'
<1>1. FilesInv' /\ OnlyTablesTagged'
  BY DEF OwnInv, FilesInv, OnlyTablesTagged
<1>2. CommandInv'
  BY DEF CommandInv
<1> QED
  BY <1>1, <1>2 DEF OwnInv

LEMMA StartGenerateOwn == OwnInv /\ StartGenerate => OwnInv'
<1> SUFFICES ASSUME OwnInv, StartGenerate PROVE OwnInv'
  OBVIOUS
<1> DEFINE enums == Present(schema, Enums)
           comps == Present(schema, Composites)
<1>1. PICK tables \in SetToSeqs(Present(schema, Tables)) :
        cmd' = [NoCommand EXCEPT !.pc = "models", !.seen = schema, !.tables = tables,
                                 !.todo = SetToSeq(enums) \o SetToSeq(comps) \o tables]
  BY DEF StartGenerate
<1>2. /\ enums \subseteq Enums /\ comps \subseteq Composites
      /\ Present(schema, Tables) \subseteq Tables
  BY DEF Present
<1>3. IsFiniteSet(enums) /\ IsFiniteSet(comps) /\ IsFiniteSet(Present(schema, Tables))
  BY <1>2, NamesAssumption, FS_Subset DEF ModelObjects
<1> HIDE DEF enums, comps
<1>4. SetToSeq(enums) \in Seq(ModelObjects) /\ SetToSeq(comps) \in Seq(ModelObjects)
  <2>1. SetToSeq(enums) \in Seq(enums) /\ SetToSeq(comps) \in Seq(comps)
    BY <1>3, SetListed
  <2>2. enums \subseteq ModelObjects /\ comps \subseteq ModelObjects
    BY <1>2 DEF ModelObjects
  <2> QED
    BY <2>1, <2>2
<1>5. tables \in Seq(ModelObjects)
  <2>1. Cardinality(Present(schema, Tables)) \in Nat
    BY <1>3, FS_CardinalityType
  <2>2. tables \in [1..Cardinality(Present(schema, Tables)) -> Present(schema, Tables)]
    BY DEF SetToSeqs
  <2>3. Present(schema, Tables) \subseteq ModelObjects
    BY <1>2 DEF ModelObjects
  <2> QED
    BY <2>1, <2>2, <2>3
<1>6. cmd'.todo \in Seq(ModelObjects)
  BY <1>1, <1>4, <1>5 DEF NoCommand
<1>7. DOMAIN cmd' = DOMAIN NoCommand /\ cmd'.pc = "models"
  BY <1>1 DEF NoCommand
<1>8. UNCHANGED <<models, mine>>
  BY DEF StartGenerate
<1> QED
  BY <1>6, <1>7, <1>8, RestOwn DEF NoCommand

\* The rest of the command's steps around the models.
LEMMA CommandOwn ==
  ASSUME OwnInv,
         \/ ReadQueries \/ IntrospectQueries \/ WriteQuerier \/ OpenBinding
         \/ WriteBinding \/ BindingsWritten \/ Clean \/ Interrupt
  PROVE  OwnInv'
<1> DEFINE Fields == {"pc", "clean", "seen", "tables", "todo", "queries", "extensions", "text"}
<1>1. UNCHANGED <<models, mine>>
  BY DEF ReadQueries, IntrospectQueries, WriteQuerier, OpenBinding, WriteBinding,
         BindingsWritten, Clean, Interrupt
<1>2. DOMAIN cmd = Fields
  BY DEF OwnInv, CommandInv
<1>3. DOMAIN Failed = Fields /\ Failed.pc = "failed"
  BY DEF Failed, NoCommand
<1>4. DOMAIN cmd' = Fields /\ cmd'.pc \notin {"models", "writeModel"}
  <2>1. CASE ReadQueries       BY <2>1, <1>2 DEF ReadQueries
  <2>2. CASE IntrospectQueries
    <3>1. \/ \E queries : cmd' = [cmd EXCEPT !.pc = "querier", !.queries = queries]
          \/ cmd' = Failed
      BY <2>2, Zenon DEF IntrospectQueries
    <3> QED
      BY <3>1, <1>2, <1>3
  <2>3. CASE WriteQuerier      BY <2>3, <1>2 DEF WriteQuerier
  <2>4. CASE OpenBinding       BY <2>4, <1>2 DEF OpenBinding
  <2>5. CASE WriteBinding      BY <2>5, <1>2 DEF WriteBinding
  <2>6. CASE BindingsWritten   BY <2>6, <1>2 DEF BindingsWritten
  <2>7. CASE Clean             BY <2>7, <1>2 DEF Clean
  <2>8. CASE Interrupt         BY <2>8, <1>3 DEF Interrupt
  <2> QED
    BY <2>1, <2>2, <2>3, <2>4, <2>5, <2>6, <2>7, <2>8
<1> QED
  BY <1>1, <1>4, RestOwn

LEMMA SkipTableOwn == OwnInv /\ SkipTable => OwnInv'
<1> SUFFICES ASSUME OwnInv, SkipTable PROVE OwnInv'
  OBVIOUS
<1>1. /\ cmd.pc = "models" /\ cmd.todo # <<>> /\ cmd' = [cmd EXCEPT !.todo = Tail(@)]
      /\ UNCHANGED <<models, mine>>
  BY DEF SkipTable
<1>2. cmd.todo \in Seq(ModelObjects)
  BY <1>1 DEF OwnInv, CommandInv
<1>3. /\ cmd'.pc = "models" /\ cmd'.todo = Tail(cmd.todo) /\ DOMAIN cmd' = DOMAIN cmd
  BY <1>1 DEF OwnInv, CommandInv
<1>4. Tail(cmd.todo) \in Seq(ModelObjects)
  BY <1>1, <1>2
<1> QED
  BY <1>1, <1>3, <1>4, RestOwn DEF OwnInv, CommandInv

LEMMA MergeModelOwn == OwnInv /\ MergeModel => OwnInv'
<1> SUFFICES ASSUME OwnInv, MergeModel PROVE OwnInv'
  OBVIOUS
<1> DEFINE o == Head(cmd.todo)
           f == ModelFile[o]
           text == Modelled(o, models[f], cmd.seen[o])
<1>1. CASE models[f] = Torn
  <2>1. cmd' = Failed /\ UNCHANGED <<models, mine>>
    BY <1>1 DEF MergeModel
  <2> QED
    BY <2>1, RestOwn DEF Failed, NoCommand
<1>2. CASE models[f] # Torn
  <2>1. /\ cmd.pc = "models" /\ cmd.todo # <<>>
        /\ cmd' = [cmd EXCEPT !.pc = "writeModel", !.text = text]
        /\ models' = [models EXCEPT ![f] = Torn]
        /\ mine' = mine
    BY <1>2 DEF MergeModel
  <2>2. cmd.todo \in Seq(ModelObjects) /\ o \in ModelObjects /\ f \in ModelFiles
    BY <2>1, HeadFile DEF OwnInv, CommandInv
  <2>3. o \notin Tables => mine[f].tags = {}
    BY <2>2 DEF OwnInv, OnlyTablesTagged
  <2>4. IsFile(text) /\ KeepsFields(text, mine[f])
    <3>1. CASE models[f] = NoFile
      <4>1. text = NewModel(o, cmd.seen[o]) /\ mine[f] = Nothing
        BY <3>1, <2>2 DEF Modelled, OwnInv, FilesInv, NoFile, Torn, IsFile, IsGo
      <4> QED
        BY <4>1, <2>2, NewModelKeeps
    <3>2. CASE models[f] # NoFile
      <4>1. text = MergedModel(o, models[f], cmd.seen[o])
        BY <3>2 DEF Modelled
      <4>2. IsFile(models[f]) /\ KeepsFields(models[f], mine[f]) /\ Tagged(models[f], mine[f])
        BY <1>2, <3>2, <2>2 DEF OwnInv, FilesInv
      <4> QED
        BY <4>1, <4>2, <2>2, <2>3, MergedModelKeeps
    <3> QED
      BY <3>1, <3>2
  <2> HIDE DEF text
  <2>5. FilesInv'
    BY <2>1, <2>2 DEF OwnInv, FilesInv
  <2>6. OnlyTablesTagged'
    BY <2>1 DEF OwnInv, OnlyTablesTagged
  <2>7. CommandInv'
    <3>1. /\ DOMAIN cmd' = DOMAIN cmd /\ cmd'.text = text /\ cmd'.todo = cmd.todo
          /\ cmd'.pc = "writeModel"
      BY <2>1 DEF OwnInv, CommandInv
    <3>2. models'[f] = Torn
      BY <2>1, <2>2 DEF OwnInv, FilesInv
    <3> QED
      BY <2>1, <2>2, <2>4, <3>1, <3>2 DEF OwnInv, CommandInv
  <2> QED
    BY <2>5, <2>6, <2>7 DEF OwnInv
<1> QED
  BY <1>1, <1>2

LEMMA WriteModelOwn == OwnInv /\ WriteModel => OwnInv'
<1> SUFFICES ASSUME OwnInv, WriteModel PROVE OwnInv'
  OBVIOUS
<1> DEFINE f == ModelFile[Head(cmd.todo)]
           tags == mine[f].tags \cap FieldNames(cmd.text.main)
<1>1. /\ cmd.pc = "writeModel"
      /\ models' = [models EXCEPT ![f] = cmd.text]
      /\ mine' = [mine EXCEPT ![f].tags = tags]
      /\ cmd' = [cmd EXCEPT !.pc = "models", !.todo = Tail(@), !.text = NoFile]
  BY DEF WriteModel
<1>2. /\ cmd.todo \in Seq(ModelObjects) /\ cmd.todo # <<>>
      /\ IsFile(cmd.text) /\ KeepsFields(cmd.text, mine[f])
  BY <1>1 DEF OwnInv, CommandInv
<1>3. f \in ModelFiles
  BY <1>2, HeadFile
<1>4. /\ models'[f] = cmd.text
      /\ \A g \in ModelFiles \ {f} : models'[g] = models[g] /\ mine'[g] = mine[g]
      /\ DOMAIN mine'[f] = {"ext", "own", "tags", "blocks"}
      /\ mine'[f].ext = mine[f].ext /\ mine'[f].own = mine[f].own /\ mine'[f].tags = tags
      /\ DOMAIN models' = ModelFiles /\ DOMAIN mine' = ModelFiles
  BY <1>1, <1>3 DEF OwnInv, FilesInv
<1>5. KeepsFields(cmd.text, mine'[f]) /\ Tagged(cmd.text, mine'[f])
  BY <1>2, <1>4 DEF KeepsFields, Tagged
<1>6. FilesInv'
  BY <1>2, <1>4, <1>5 DEF OwnInv, FilesInv
<1>7. OnlyTablesTagged'
  <2> SUFFICES ASSUME NEW o \in ModelObjects \ Tables PROVE mine'[ModelFile[o]].tags = {}
    BY DEF OnlyTablesTagged
  <2>1. mine[ModelFile[o]].tags = {} /\ ModelFile[o] \in ModelFiles
    BY NamesAssumption DEF OwnInv, OnlyTablesTagged, ModelFiles, Range
  <2> QED
    BY <2>1, <1>4
<1>8. CommandInv'
  <2>1. DOMAIN cmd' = DOMAIN cmd /\ cmd'.pc = "models" /\ cmd'.todo = Tail(cmd.todo)
    BY <1>1 DEF OwnInv, CommandInv
  <2>2. Tail(cmd.todo) \in Seq(ModelObjects)
    BY <1>2
  <2> QED
    BY <2>1, <2>2 DEF OwnInv, CommandInv
<1> QED
  BY <1>6, <1>7, <1>8 DEF OwnInv
-----------------------------------------------------------------------------
(* The user's steps.                                                       *)

\* An edit of one file that keeps the user's code and records it.
LEMMA SaveOwn ==
  ASSUME OwnInv, NEW f \in ModelFiles, NEW file, NEW own,
         Save(f, file), mine' = [mine EXCEPT ![f] = own],
         IsFile(file), DOMAIN own = {"ext", "own", "tags", "blocks"},
         KeepsFields(file, own), Tagged(file, own),
         \A o \in ModelObjects \ Tables : ModelFile[o] = f => own.tags = {}
  PROVE  OwnInv'
<1> DEFINE saved == [file EXCEPT !.imports = UsedPackages(file)]
<1>1. models' = [models EXCEPT ![f] = saved] /\ cmd' = NoCommand
  BY DEF Save, Edited
<1>2. /\ IsFile(saved) /\ saved.main = file.main
      /\ saved.ext = file.ext /\ saved.own = file.own
  BY DEF IsFile, IsGo
<1>3. KeepsFields(saved, own) /\ Tagged(saved, own)
  BY <1>2 DEF KeepsFields, Tagged
<1> HIDE DEF saved
<1>4. FilesInv'
  BY <1>1, <1>2, <1>3 DEF OwnInv, FilesInv
<1>5. OnlyTablesTagged'
  <2> SUFFICES ASSUME NEW o \in ModelObjects \ Tables PROVE mine'[ModelFile[o]].tags = {}
    BY DEF OnlyTablesTagged
  <2>1. mine[ModelFile[o]].tags = {} /\ ModelFile[o] \in ModelFiles
    BY NamesAssumption DEF OwnInv, OnlyTablesTagged, ModelFiles, Range
  <2>2. mine'[ModelFile[o]] = IF ModelFile[o] = f THEN own ELSE mine[ModelFile[o]]
    BY <2>1 DEF OwnInv, FilesInv
  <2> QED
    BY <2>1, <2>2
<1>6. CommandInv'
  BY <1>1 DEF CommandInv, NoCommand
<1> QED
  BY <1>4, <1>5, <1>6 DEF OwnInv

\* What is known of a file that parses.
LEMMA FileNow ==
  ASSUME OwnInv, NEW f \in ModelFiles, IsGo(models[f])
  PROVE  /\ IsFile(models[f]) /\ KeepsFields(models[f], mine[f]) /\ Tagged(models[f], mine[f])
         /\ DOMAIN mine[f] = {"ext", "own", "tags", "blocks"}
         /\ \A o \in ModelObjects \ Tables : ModelFile[o] = f => mine[f].tags = {}
  BY DEF OwnInv, FilesInv, OnlyTablesTagged, IsGo, NoFile, Torn

LEMMA ExtendOwn == \A t \in Tables : OwnInv /\ Extend(t) => OwnInv'
<1> SUFFICES ASSUME NEW t \in Tables, OwnInv, Extend(t) PROVE OwnInv'
  OBVIOUS
<1> DEFINE f == ModelFile[t]
<1>1. PICK field \in ExtFields :
        /\ IsGo(models[f])
        /\ Save(f, [models[f] EXCEPT !.ext = Append(@, field)])
        /\ mine' = [mine EXCEPT ![f].ext = Append(@, field)]
  BY DEF Extend
<1>2. f \in ModelFiles
  BY NamesAssumption DEF ModelFiles, Range, ModelObjects
<1> HIDE DEF f
<1> DEFINE file == [models[f] EXCEPT !.ext = Append(@, field)]
           own  == [mine[f] EXCEPT !.ext = Append(@, field)]
<1>3. /\ IsFile(models[f]) /\ KeepsFields(models[f], mine[f]) /\ Tagged(models[f], mine[f])
      /\ DOMAIN mine[f] = {"ext", "own", "tags", "blocks"}
      /\ \A o \in ModelObjects \ Tables : ModelFile[o] = f => mine[f].tags = {}
  BY <1>1, <1>2, FileNow
<1>4. /\ IsFile(file) /\ file.main = models[f].main /\ file.own = models[f].own
      /\ file.ext = Append(models[f].ext, field)
  BY <1>3 DEF IsFile, IsGo
<1>5. /\ DOMAIN own = {"ext", "own", "tags", "blocks"} /\ own.own = mine[f].own
      /\ own.tags = mine[f].tags /\ own.ext = Append(mine[f].ext, field)
  BY <1>3
<1>6. mine' = [mine EXCEPT ![f] = own]
  BY <1>1
<1> HIDE DEF file, own
<1>7. KeepsFields(file, own) /\ Tagged(file, own)
  BY <1>3, <1>4, <1>5 DEF KeepsFields, Tagged
<1>8. Save(f, file)
  BY <1>1 DEF file
<1> QED
  BY <1>2, <1>3, <1>4, <1>5, <1>6, <1>7, <1>8, SaveOwn

LEMMA WithdrawFieldOwn == \A t \in Tables : OwnInv /\ WithdrawField(t) => OwnInv'
<1> SUFFICES ASSUME NEW t \in Tables, OwnInv, WithdrawField(t) PROVE OwnInv'
  OBVIOUS
<1> DEFINE f == ModelFile[t]
<1>1. PICK i \in DOMAIN mine[f].ext :
        /\ IsGo(models[f])
        /\ Save(f, [models[f] EXCEPT !.ext = RemoveAt(@, i)])
        /\ mine' = [mine EXCEPT ![f].ext = RemoveAt(@, i)]
  BY DEF WithdrawField
<1>2. f \in ModelFiles
  BY NamesAssumption DEF ModelFiles, Range, ModelObjects
<1> HIDE DEF f
<1> DEFINE file == [models[f] EXCEPT !.ext = RemoveAt(@, i)]
           own  == [mine[f] EXCEPT !.ext = RemoveAt(@, i)]
<1>3. /\ IsFile(models[f]) /\ KeepsFields(models[f], mine[f]) /\ Tagged(models[f], mine[f])
      /\ DOMAIN mine[f] = {"ext", "own", "tags", "blocks"}
      /\ \A o \in ModelObjects \ Tables : ModelFile[o] = f => mine[f].tags = {}
  BY <1>1, <1>2, FileNow
<1>4. /\ IsFile(file) /\ file.main = models[f].main /\ file.own = models[f].own
      /\ file.ext = RemoveAt(models[f].ext, i)
  BY <1>3 DEF IsFile, IsGo
<1>5. /\ DOMAIN own = {"ext", "own", "tags", "blocks"} /\ own.own = mine[f].own
      /\ own.tags = mine[f].tags /\ own.ext = RemoveAt(mine[f].ext, i)
  BY <1>3
<1>6. mine' = [mine EXCEPT ![f] = own]
  BY <1>1
<1> HIDE DEF file, own
<1>7. KeepsFields(file, own) /\ Tagged(file, own)
  BY <1>3, <1>4, <1>5 DEF KeepsFields, Tagged
<1>8. Save(f, file)
  BY <1>1 DEF file
<1> QED
  BY <1>2, <1>3, <1>4, <1>5, <1>6, <1>7, <1>8, SaveOwn

LEMMA RetagOwn == \A t \in Tables : OwnInv /\ Retag(t) => OwnInv'
<1> SUFFICES ASSUME NEW t \in Tables, OwnInv, Retag(t) PROVE OwnInv'
  OBVIOUS
<1> DEFINE f == ModelFile[t]
           Marked(name, main) ==
             [i \in DOMAIN main |-> [name |-> main[i].name, type |-> main[i].type,
                                     tag  |-> IF main[i].name = name THEN "own" ELSE main[i].tag]]
<1>1. PICK name \in FieldNames(models[f].main) \ mine[f].tags :
        /\ IsGo(models[f])
        /\ Save(f, [models[f] EXCEPT !.main = Marked(name, @)])
        /\ mine' = [mine EXCEPT ![f].tags = @ \cup {name}]
  BY DEF Retag
<1>2. f \in ModelFiles
  BY NamesAssumption DEF ModelFiles, Range, ModelObjects
<1> DEFINE main == Marked(name, models[f].main)
           file == [models[f] EXCEPT !.main = main]
           own  == [mine[f] EXCEPT !.tags = @ \cup {name}]
<1>3. /\ IsFile(models[f]) /\ KeepsFields(models[f], mine[f]) /\ Tagged(models[f], mine[f])
      /\ DOMAIN mine[f] = {"ext", "own", "tags", "blocks"}
  BY <1>1, <1>2, FileNow
<1>4. /\ DOMAIN main = DOMAIN models[f].main
      /\ \A i \in DOMAIN main : /\ main[i].name = models[f].main[i].name
                                /\ main[i].tag = IF main[i].name = name THEN "own" ELSE models[f].main[i].tag
  OBVIOUS
<1> HIDE DEF main, Marked
<1>5. FieldNames(main) = FieldNames(models[f].main)
  BY <1>4 DEF FieldNames, Range
<1>6. /\ IsFile(file) /\ file.main = main /\ file.own = models[f].own
      /\ file.ext = models[f].ext
  BY <1>3 DEF IsFile, IsGo
<1>7. /\ DOMAIN own = {"ext", "own", "tags", "blocks"} /\ own.own = mine[f].own
      /\ own.tags = mine[f].tags \cup {name} /\ own.ext = mine[f].ext
  BY <1>3
<1>8. mine' = [mine EXCEPT ![f] = own]
  BY <1>1
<1>9. Save(f, file)
  BY <1>1 DEF main
<1> HIDE DEF file, own
<1>10. KeepsFields(file, own)
  BY <1>3, <1>4, <1>6, <1>7 DEF KeepsFields
<1>11. Tagged(file, own)
  BY <1>1, <1>3, <1>5, <1>6, <1>7 DEF Tagged
<1>12. \A o \in ModelObjects \ Tables : ModelFile[o] # f
  BY NamesAssumption DEF IsInjective, ModelObjects
<1> QED
  BY <1>2, <1>6, <1>7, <1>8, <1>9, <1>10, <1>11, <1>12, SaveOwn

LEMMA DeclareOwn == \A f \in ModelFiles : OwnInv /\ Declare(f) => OwnInv'
<1> SUFFICES ASSUME NEW f \in ModelFiles, OwnInv, Declare(f) PROVE OwnInv'
  OBVIOUS
<1>1. PICK code : /\ IsGo(models[f])
                  /\ Save(f, [models[f] EXCEPT !.own = code])
                  /\ mine' = [mine EXCEPT ![f].own = code]
  BY Zenon DEF Declare
<1> DEFINE file == [models[f] EXCEPT !.own = code]
           own  == [mine[f] EXCEPT !.own = code]
<1>2. /\ IsFile(models[f]) /\ KeepsFields(models[f], mine[f]) /\ Tagged(models[f], mine[f])
      /\ DOMAIN mine[f] = {"ext", "own", "tags", "blocks"}
      /\ \A o \in ModelObjects \ Tables : ModelFile[o] = f => mine[f].tags = {}
  BY <1>1, FileNow
<1>3. /\ IsFile(file) /\ file.main = models[f].main /\ file.own = code
      /\ file.ext = models[f].ext
  BY <1>2 DEF IsFile, IsGo
<1>4. /\ DOMAIN own = {"ext", "own", "tags", "blocks"} /\ own.own = code
      /\ own.tags = mine[f].tags /\ own.ext = mine[f].ext
  BY <1>2
<1>5. mine' = [mine EXCEPT ![f] = own] /\ Save(f, file)
  BY <1>1
<1> HIDE DEF file, own
<1>6. KeepsFields(file, own) /\ Tagged(file, own)
  BY <1>2, <1>3, <1>4 DEF KeepsFields, Tagged
<1> QED
  BY <1>2, <1>3, <1>4, <1>5, <1>6, SaveOwn

LEMMA DeclareConstsOwn == \A o \in Enums : OwnInv /\ DeclareConsts(o) => OwnInv'
<1> SUFFICES ASSUME NEW o \in Enums, OwnInv, DeclareConsts(o) PROVE OwnInv'
  OBVIOUS
<1> DEFINE f == ModelFile[o]
<1>1. PICK block, consts : /\ IsGo(models[f])
                           /\ Save(f, [models[f] EXCEPT !.consts = consts])
                           /\ mine' = [mine EXCEPT ![f].blocks = @ \cup {block}]
  BY DEF DeclareConsts
<1>2. f \in ModelFiles
  BY NamesAssumption DEF ModelFiles, Range, ModelObjects
<1> HIDE DEF f
<1> DEFINE file == [models[f] EXCEPT !.consts = consts]
           own  == [mine[f] EXCEPT !.blocks = @ \cup {block}]
<1>3. /\ IsFile(models[f]) /\ KeepsFields(models[f], mine[f]) /\ Tagged(models[f], mine[f])
      /\ DOMAIN mine[f] = {"ext", "own", "tags", "blocks"}
      /\ \A p \in ModelObjects \ Tables : ModelFile[p] = f => mine[f].tags = {}
  BY <1>1, <1>2, FileNow
<1>4. /\ IsFile(file) /\ file.main = models[f].main /\ file.own = models[f].own
      /\ file.ext = models[f].ext
  BY <1>3 DEF IsFile, IsGo
<1>5. /\ DOMAIN own = {"ext", "own", "tags", "blocks"} /\ own.own = mine[f].own
      /\ own.tags = mine[f].tags /\ own.ext = mine[f].ext
  BY <1>3
<1>6. mine' = [mine EXCEPT ![f] = own] /\ Save(f, file)
  BY <1>1
<1> HIDE DEF file, own
<1>7. KeepsFields(file, own) /\ Tagged(file, own)
  BY <1>3, <1>4, <1>5 DEF KeepsFields, Tagged
<1> QED
  BY <1>2, <1>3, <1>4, <1>5, <1>6, <1>7, SaveOwn

LEMMA DeleteModelOwn == \A f \in ModelFiles : OwnInv /\ DeleteModel(f) => OwnInv'
<1> SUFFICES ASSUME NEW f \in ModelFiles, OwnInv, DeleteModel(f) PROVE OwnInv'
  OBVIOUS
<1>1. /\ models' = [models EXCEPT ![f] = NoFile]
      /\ mine' = [mine EXCEPT ![f] = Nothing]
      /\ cmd' = NoCommand
  BY DEF DeleteModel, Edited
<1>2. FilesInv'
  BY <1>1 DEF OwnInv, FilesInv, Nothing
<1>3. OnlyTablesTagged'
  BY <1>1, NamesAssumption DEF OwnInv, FilesInv, OnlyTablesTagged, Nothing, ModelFiles, Range
<1>4. CommandInv'
  BY <1>1 DEF CommandInv, NoCommand
<1> QED
  BY <1>2, <1>3, <1>4 DEF OwnInv

\* Migrations and edits of the query file.
LEMMA OutsideOwn ==
  ASSUME OwnInv, EditQueries \/ \E o \in ModelObjects : ChangeSchema(o)
  PROVE  OwnInv'
<1>1. UNCHANGED <<models, mine>> /\ (cmd' = cmd \/ cmd' = NoCommand)
  BY DEF EditQueries, ChangeSchema, Edited
<1>2. CASE cmd' = cmd
  BY <1>1, <1>2 DEF OwnInv, FilesInv, OnlyTablesTagged, CommandInv
<1>3. CASE cmd' = NoCommand
  BY <1>1, <1>3, RestOwn DEF NoCommand
<1> QED
  BY <1>1, <1>2, <1>3
-----------------------------------------------------------------------------
LEMMA StepOwn == OwnInv /\ [Next]_vars => OwnInv'
<1> SUFFICES ASSUME OwnInv, [Next]_vars PROVE OwnInv'
  OBVIOUS
<1>1. CASE UNCHANGED vars
  BY <1>1 DEF vars, OwnInv, FilesInv, OnlyTablesTagged, CommandInv
<1>2. CASE Command
  BY <1>2, StartGenerateOwn, SkipTableOwn, MergeModelOwn, WriteModelOwn, CommandOwn DEF Command
<1>3. CASE Interrupt
  BY <1>3, CommandOwn
<1>4. CASE User
  BY <1>4, ExtendOwn, WithdrawFieldOwn, RetagOwn, DeclareOwn, DeclareConstsOwn, DeleteModelOwn,
     OutsideOwn DEF User
<1> QED
  BY <1>1, <1>2, <1>3, <1>4 DEF Next

(* The user's constants.                                                   *)

HasBlocks(file, own) ==
  file.consts \in Seq(Range(file.consts)) /\ own.blocks \subseteq Range(file.consts)

\* They are in every file that parses, and in the text about to be written.
BlockInv ==
  /\ \A f \in ModelFiles : mine[f].blocks \subseteq OwnBlocks
  /\ \A f \in ModelFiles : IsGo(models[f]) => HasBlocks(models[f], mine[f])
  /\ cmd.pc = "writeModel" => HasBlocks(cmd.text, mine[ModelFile[Head(cmd.todo)]])

LEMMA NewModelBlocks ==
  ASSUME NEW o \in ModelObjects, NEW def
  PROVE  HasBlocks(NewModel(o, def), Nothing)
<1>1. PICK main, consts, imports :
        /\ NewModel(o, def) = GoFile(main, <<>>, consts, imports, {})
        /\ consts \in {<<>>, <<def>>}
  BY NamesAssumption DEF NewModel, ModelObjects
<1>2. NewModel(o, def).consts = consts
  BY <1>1 DEF GoFile
<1>3. <<>> \in Seq(Range(<<>>)) /\ <<def>> \in Seq(Range(<<def>>))
  BY DEF Range
<1> QED
  BY <1>1, <1>2, <1>3 DEF HasBlocks, Nothing

\* What the merge replaces is a block that begins with the enum's name.
LEMMA ReplacedBlock ==
  ASSUME NEW consts, consts \in Seq(Range(consts)), NamedBlocks(consts) # {}
  PROVE  Max(NamedBlocks(consts)) \in NamedBlocks(consts)
<1>1. PICK n \in Nat : DOMAIN consts = 1..n
  OBVIOUS
<1>2. PICK T : T = NamedBlocks(consts) OBVIOUS
<1>3. T \in SUBSET (1..n) /\ T # {}
  BY <1>1, <1>2 DEF NamedBlocks
<1>4. \E x \in T : \A y \in T : x >= y
  BY <1>3, Greatest
<1>5. Max(T) \in T
  BY <1>4 DEF Max
<1> QED
  BY <1>2, <1>5

LEMMA MergedModelBlocks ==
  ASSUME BlocksApart, NEW o \in ModelObjects, NEW file, NEW own, NEW def,
         IsFile(file), HasBlocks(file, own), own.blocks \subseteq OwnBlocks
  PROVE  HasBlocks(MergedModel(o, file, def), own)
<1>1. CASE o \in Enums
  <2>1. MergedModel(o, file, def) = MergeEnumFile(file, def)
    BY <1>1, NamesAssumption DEF MergedModel
  <2>2. PICK consts : consts = file.consts OBVIOUS
  <2>3. consts \in Seq(Range(consts)) /\ own.blocks \subseteq Range(consts)
    BY <2>2 DEF HasBlocks
  <2>4. PICK new : new = IF NamedBlocks(consts) = {} THEN <<def>> \o consts
                         ELSE [consts EXCEPT ![Max(NamedBlocks(consts))] = def]
    OBVIOUS
  <2>5. MergeEnumFile(file, def).consts = new
    BY <2>2, <2>4 DEF MergeEnumFile, IsFile
  <2>6. new \in Seq(Range(new)) /\ own.blocks \subseteq Range(new)
    <3>1. PICK n \in Nat : DOMAIN consts = 1..n /\ n = Len(consts) BY <2>3
    <3>2. CASE NamedBlocks(consts) = {}
      <4>1. PICK S : S = Range(consts) \cup {def} OBVIOUS
      <4>2. new = <<def>> \o consts /\ consts \in Seq(S) /\ <<def>> \in Seq(S)
        BY <2>3, <2>4, <3>2, <4>1
      <4>3. /\ new \in Seq(S) /\ Len(new) = n + 1 /\ DOMAIN new = 1..(n + 1)
            /\ \A i \in 1..n : new[i + 1] = consts[i]
        BY <3>1, <4>2
      <4>4. new \in Seq(Range(new))
        <5>1. new \in [1..(n + 1) -> Range(new)] BY <4>3 DEF Range
        <5> QED BY <5>1
      <4>5. Range(consts) \subseteq Range(new)
        BY <3>1, <4>3 DEF Range
      <4> QED BY <2>3, <4>4, <4>5
    <3>3. CASE NamedBlocks(consts) # {}
      <4>1. PICK k : k = Max(NamedBlocks(consts)) OBVIOUS
      <4>2. k \in 1..n /\ Range(consts[k]) \cap TypeNamed # {}
        BY <2>3, <3>1, <3>3, <4>1, ReplacedBlock DEF NamedBlocks
      <4>3. new = [consts EXCEPT ![k] = def] BY <2>4, <3>3, <4>1
      <4>4. DOMAIN new = 1..n /\ \A i \in (1..n) \ {k} : new[i] = consts[i]
        BY <3>1, <4>3
      <4>5. new \in Seq(Range(new))
        <5>1. new = [i \in 1..n |-> new[i]] BY <3>1, <4>3
        <5>2. new \in [1..n -> Range(new)] BY <4>4, <5>1 DEF Range
        <5> QED BY <5>2
      <4>6. ASSUME NEW b \in own.blocks PROVE b \in Range(new)
        <5>1. PICK i \in 1..n : consts[i] = b BY <2>3, <3>1 DEF Range
        <5>2. Range(b) \cap TypeNamed = {} BY DEF BlocksApart
        <5>3. i # k BY <4>2, <5>1, <5>2
        <5> QED BY <4>4, <5>1, <5>3 DEF Range
      <4> QED BY <4>5, <4>6
    <3> QED BY <3>2, <3>3
  <2> QED BY <2>1, <2>5, <2>6 DEF HasBlocks
<1>2. CASE o \in Composites
  <2>1. MergedModel(o, file, def) = MergeStructFile(file, def)
    BY <1>2, NamesAssumption DEF MergedModel
  <2>2. MergeStructFile(file, def).consts = file.consts
    BY DEF MergeStructFile, IsFile
  <2> QED BY <2>1, <2>2 DEF HasBlocks
<1>3. CASE o \in Tables
  <2>1. MergedModel(o, file, def) = MergeTableFile(file, def)
    BY <1>3, NamesAssumption DEF MergedModel
  <2> QED BY <2>1, MergeTableFileParts DEF HasBlocks
<1> QED BY <1>1, <1>2, <1>3 DEF ModelObjects

LEMMA InitBlocks == Init => BlockInv
<1> SUFFICES ASSUME Init PROVE BlockInv OBVIOUS
<1>1. \A f \in ModelFiles : models[f] = NoFile /\ mine[f] = Nothing BY DEF Init
<1>2. cmd.pc = "idle" BY DEF Init, NoCommand
<1> QED BY <1>1, <1>2 DEF BlockInv, Nothing, NoFile, IsGo

LEMMA RestBlocks ==
  ASSUME BlockInv, UNCHANGED <<models, mine>>, cmd'.pc # "writeModel"
  PROVE  BlockInv'
BY DEF BlockInv

LEMMA CommandBlocks == ASSUME BlocksApart, OwnInv, BlockInv, Command PROVE BlockInv'
<1>1. CASE StartGenerate
  <2>1. UNCHANGED <<models, mine>> /\ cmd'.pc = "models" BY <1>1 DEF StartGenerate, NoCommand
  <2> QED BY <2>1, RestBlocks
<1>2. CASE SkipTable
  <2>1. UNCHANGED <<models, mine>> /\ cmd'.pc = "models" BY <1>2 DEF SkipTable, OwnInv, CommandInv
  <2> QED BY <2>1, RestBlocks
<1>3. CASE MergeModel
  <2> DEFINE o == Head(cmd.todo)
             f == ModelFile[o]
  <2>1. CASE models[f] = Torn
    <3>1. UNCHANGED <<models, mine>> /\ cmd' = Failed BY <1>3, <2>1 DEF MergeModel
    <3> QED BY <3>1, RestBlocks DEF Failed
  <2>2. CASE models[f] # Torn
    <3>1. PICK text : /\ text = Modelled(o, models[f], cmd.seen[o])
                      /\ cmd' = [cmd EXCEPT !.pc = "writeModel", !.text = text]
      BY <1>3, <2>2 DEF MergeModel
    <3>2. /\ models' = [models EXCEPT ![f] = Torn] /\ mine' = mine
          /\ cmd.pc = "models" /\ cmd.todo # <<>>
      BY <1>3, <2>2 DEF MergeModel
    <3>3. o \in ModelObjects /\ f \in ModelFiles BY <3>2, HeadFile DEF OwnInv, CommandInv
    <3>4. cmd'.text = text /\ cmd'.todo = cmd.todo BY <3>1 DEF OwnInv, CommandInv
    <3>5. HasBlocks(text, mine[f])
      <4>1. CASE models[f] = NoFile
        <5>1. mine[f] = Nothing BY <3>3, <4>1 DEF OwnInv, FilesInv, NoFile, Torn, IsFile, IsGo
        <5> QED BY <3>1, <3>3, <4>1, <5>1, NewModelBlocks DEF Modelled
      <4>2. CASE models[f] # NoFile
        <5>1. IsFile(models[f]) BY <2>2, <3>3, <4>2 DEF OwnInv, FilesInv
        <5>2. HasBlocks(models[f], mine[f]) /\ mine[f].blocks \subseteq OwnBlocks
          BY <3>3, <5>1 DEF BlockInv, IsFile
        <5> QED BY <3>1, <3>3, <4>2, <5>1, <5>2, MergedModelBlocks DEF Modelled
      <4> QED BY <4>1, <4>2
    <3>6. \A g \in ModelFiles : IsGo(models'[g]) => models'[g] = models[g]
      BY <3>2 DEF OwnInv, FilesInv, IsGo, Torn
    <3> QED BY <3>2, <3>4, <3>5, <3>6 DEF BlockInv
  <2> QED BY <2>1, <2>2
<1>4. CASE WriteModel
  <2> DEFINE f == ModelFile[Head(cmd.todo)]
  <2>1. /\ cmd.pc = "writeModel" /\ models' = [models EXCEPT ![f] = cmd.text]
        /\ mine' = [mine EXCEPT ![f].tags = @ \cap FieldNames(cmd.text.main)]
        /\ cmd' = [cmd EXCEPT !.pc = "models", !.todo = Tail(@), !.text = NoFile]
    BY <1>4 DEF WriteModel
  <2>2. f \in ModelFiles BY <2>1, HeadFile DEF OwnInv, CommandInv
  <2>3. \A g \in ModelFiles : mine'[g].blocks = mine[g].blocks
    BY <2>1, <2>2 DEF OwnInv, FilesInv
  <2>4. models'[f] = cmd.text /\ \A g \in ModelFiles \ {f} : models'[g] = models[g]
    BY <2>1, <2>2 DEF OwnInv, FilesInv
  <2>5. cmd'.pc = "models" BY <2>1 DEF OwnInv, CommandInv
  <2>6. \A g \in ModelFiles : IsGo(models'[g]) => HasBlocks(models'[g], mine'[g])
    BY <2>1, <2>2, <2>3, <2>4 DEF BlockInv, HasBlocks
  <2> QED BY <2>3, <2>5, <2>6 DEF BlockInv
<1>5. CASE \/ ReadQueries \/ IntrospectQueries \/ WriteQuerier \/ OpenBinding
           \/ WriteBinding \/ BindingsWritten \/ Clean
  <2>1. UNCHANGED <<models, mine>> /\ cmd.pc # "writeModel"
    BY <1>5 DEF ReadQueries, IntrospectQueries, WriteQuerier, OpenBinding, WriteBinding,
                BindingsWritten, Clean
  <2>2. cmd'.pc # "writeModel"
    <3>1. DOMAIN cmd = {"pc", "clean", "seen", "tables", "todo", "queries", "extensions", "text"}
      BY DEF OwnInv, CommandInv
    <3>2. CASE IntrospectQueries
      <4>1. \/ \E queries : cmd' = [cmd EXCEPT !.pc = "querier", !.queries = queries]
            \/ cmd' = Failed
        BY <3>2, Zenon DEF IntrospectQueries
      <4> QED BY <3>1, <4>1 DEF Failed, NoCommand
    <3>3. CASE ReadQueries BY <3>1, <3>3 DEF ReadQueries
    <3>4. CASE WriteQuerier BY <2>1, <3>1, <3>4 DEF WriteQuerier
    <3>5. CASE OpenBinding BY <3>1, <3>5 DEF OpenBinding
    <3>6. CASE WriteBinding BY <3>1, <3>6 DEF WriteBinding
    <3>7. CASE BindingsWritten BY <3>1, <3>7 DEF BindingsWritten
    <3>8. CASE Clean BY <3>1, <3>8 DEF Clean
    <3> QED BY <1>5, <3>2, <3>3, <3>4, <3>5, <3>6, <3>7, <3>8
  <2> QED BY <2>1, <2>2, RestBlocks
<1> QED BY <1>1, <1>2, <1>3, <1>4, <1>5 DEF Command

\* An edit of a file that keeps the blocks, or adds one.
LEMMA SaveBlocks ==
  ASSUME OwnInv, BlockInv, NEW f \in ModelFiles, NEW file, NEW own, Save(f, file), IsFile(file),
         mine' = [mine EXCEPT ![f] = own], HasBlocks(file, own), own.blocks \subseteq OwnBlocks
  PROVE  BlockInv'
<1> DEFINE saved == [file EXCEPT !.imports = UsedPackages(file)]
<1>1. models' = [models EXCEPT ![f] = saved] /\ cmd' = NoCommand BY DEF Save, Edited
<1>2. saved.consts = file.consts BY DEF IsFile
<1>3. HasBlocks(saved, own) BY <1>2 DEF HasBlocks
<1> HIDE DEF saved
<1>4. /\ models'[f] = saved /\ mine'[f] = own
      /\ \A g \in ModelFiles \ {f} : models'[g] = models[g] /\ mine'[g] = mine[g]
  BY <1>1 DEF OwnInv, FilesInv
<1> QED BY <1>1, <1>3, <1>4 DEF BlockInv, NoCommand

LEMMA UserBlocks == ASSUME OwnInv, BlockInv, User PROVE BlockInv'
<1>1. ASSUME NEW f \in ModelFiles, IsGo(models[f]), NEW file, Save(f, file),
             \/ \E ext : file = [models[f] EXCEPT !.ext = ext]
             \/ \E main : file = [models[f] EXCEPT !.main = main]
             \/ \E code : file = [models[f] EXCEPT !.own = code],
             \/ \E ext : mine' = [mine EXCEPT ![f].ext = ext]
             \/ \E tags : mine' = [mine EXCEPT ![f].tags = tags]
             \/ \E code : mine' = [mine EXCEPT ![f].own = code]
      PROVE  BlockInv'
  <2>1. IsFile(models[f]) /\ DOMAIN mine[f] = {"ext", "own", "tags", "blocks"} BY <1>1, FileNow
  <2>2. IsFile(file) /\ file.consts = models[f].consts BY <1>1, <2>1 DEF IsFile, IsGo
  <2>3. PICK own : own = mine'[f] OBVIOUS
  <2>4. mine' = [mine EXCEPT ![f] = own] /\ own.blocks = mine[f].blocks
    BY <1>1, <2>1, <2>3 DEF OwnInv, FilesInv
  <2>5. HasBlocks(file, own) /\ own.blocks \subseteq OwnBlocks
    BY <1>1, <2>2, <2>4 DEF BlockInv, HasBlocks
  <2> QED BY <1>1, <2>2, <2>4, <2>5, SaveBlocks
<1>2. ASSUME NEW t \in Tables, Extend(t) \/ WithdrawField(t) \/ Retag(t) PROVE BlockInv'
  <2>1. ModelFile[t] \in ModelFiles BY ObjectFiles DEF ModelObjects
  <2>2. CASE Extend(t)
    <3>1. \E ext, mext : /\ IsGo(models[ModelFile[t]])
                         /\ Save(ModelFile[t], [models[ModelFile[t]] EXCEPT !.ext = ext])
                         /\ mine' = [mine EXCEPT ![ModelFile[t]].ext = mext]
      BY <2>2, Zenon DEF Extend
    <3> QED BY <1>1, <2>1, <3>1
  <2>3. CASE WithdrawField(t)
    <3>1. \E ext, mext : /\ IsGo(models[ModelFile[t]])
                         /\ Save(ModelFile[t], [models[ModelFile[t]] EXCEPT !.ext = ext])
                         /\ mine' = [mine EXCEPT ![ModelFile[t]].ext = mext]
      BY <2>3, Zenon DEF WithdrawField
    <3> QED BY <1>1, <2>1, <3>1
  <2>4. CASE Retag(t)
    <3>1. \E main, tags : /\ IsGo(models[ModelFile[t]])
                          /\ Save(ModelFile[t], [models[ModelFile[t]] EXCEPT !.main = main])
                          /\ mine' = [mine EXCEPT ![ModelFile[t]].tags = tags]
      BY <2>4, Zenon DEF Retag
    <3> QED BY <1>1, <2>1, <3>1
  <2> QED BY <1>2, <2>2, <2>3, <2>4
<1>3. ASSUME NEW o \in Enums, DeclareConsts(o) PROVE BlockInv'
  <2>1. PICK f : f = ModelFile[o] /\ f \in ModelFiles BY ObjectFiles DEF ModelObjects
  <2>2. PICK block, consts :
          /\ block \in OwnBlocks
          /\ consts \in {<<block>> \o models[f].consts, Append(models[f].consts, block)}
          /\ IsGo(models[f])
          /\ Save(f, [models[f] EXCEPT !.consts = consts])
          /\ mine' = [mine EXCEPT ![f].blocks = @ \cup {block}]
    BY <1>3, <2>1 DEF DeclareConsts
  <2>3. PICK file, own : /\ file = [models[f] EXCEPT !.consts = consts]
                         /\ own = [mine[f] EXCEPT !.blocks = @ \cup {block}]
    OBVIOUS
  <2>4. IsFile(models[f]) /\ DOMAIN mine[f] = {"ext", "own", "tags", "blocks"}
    BY <2>1, <2>2, FileNow
  <2>5. /\ IsFile(file) /\ file.consts = consts /\ own.blocks = mine[f].blocks \cup {block}
        /\ mine' = [mine EXCEPT ![f] = own]
    BY <2>2, <2>3, <2>4 DEF IsFile, IsGo
  <2>6. PICK old : old = models[f].consts OBVIOUS
  <2>7. old \in Seq(Range(old)) /\ mine[f].blocks \subseteq Range(old)
    BY <2>1, <2>2, <2>6 DEF BlockInv, HasBlocks
  <2>8. consts \in Seq(Range(consts)) /\ Range(old) \cup {block} \subseteq Range(consts)
    <3>0. PICK S : S = Range(old) \cup {block} OBVIOUS
    <3>1. PICK n \in Nat : n = Len(old) /\ DOMAIN old = 1..n BY <2>7
    <3>2. old \in Seq(S) /\ <<block>> \in Seq(S) BY <2>7, <3>0
    <3>3. CASE consts = <<block>> \o old
      <4>1. /\ consts \in Seq(S) /\ DOMAIN consts = 1..(n + 1) /\ consts[1] = block
            /\ \A i \in 1..n : consts[i + 1] = old[i]
        BY <3>1, <3>2, <3>3
      <4>2. consts \in [1..(n + 1) -> Range(consts)] BY <4>1 DEF Range
      <4>3. block \in Range(consts) BY <4>1 DEF Range
      <4>4. \A i \in 1..n : old[i] \in Range(consts)
        <5>1. \A i \in 1..n : i + 1 \in 1..(n + 1) OBVIOUS
        <5>2. \A j \in 1..(n + 1) : consts[j] \in Range(consts) BY <4>1 DEF Range
        <5> QED BY <4>1, <5>1, <5>2
      <4>5. Range(old) = {old[i] : i \in 1..n} BY <3>1 DEF Range
      <4> QED BY <4>2, <4>3, <4>4, <4>5
    <3>4. CASE consts = Append(old, block)
      <4>1. /\ consts \in Seq(S) /\ DOMAIN consts = 1..(n + 1) /\ consts[n + 1] = block
            /\ \A i \in 1..n : consts[i] = old[i]
        BY <3>1, <3>2, <3>4
      <4>2. consts \in [1..(n + 1) -> Range(consts)] BY <4>1 DEF Range
      <4>3. block \in Range(consts) BY <4>1 DEF Range
      <4>4. Range(old) \subseteq Range(consts) BY <3>1, <4>1 DEF Range
      <4> QED BY <4>2, <4>3, <4>4
    <3> QED BY <2>2, <2>6, <3>3, <3>4
  <2>9. HasBlocks(file, own) /\ own.blocks \subseteq OwnBlocks
    BY <2>1, <2>2, <2>5, <2>7, <2>8 DEF HasBlocks, BlockInv
  <2>10. Save(f, file) BY <2>2, <2>3
  <2> QED BY <2>1, <2>5, <2>9, <2>10, SaveBlocks
<1>4. ASSUME NEW f \in ModelFiles, Declare(f) PROVE BlockInv'
  <2>1. \E code : /\ IsGo(models[f]) /\ Save(f, [models[f] EXCEPT !.own = code])
                  /\ mine' = [mine EXCEPT ![f].own = code]
    BY <1>4, Zenon DEF Declare
  <2> QED BY <1>1, <2>1
<1>5. ASSUME NEW f \in ModelFiles, DeleteModel(f) PROVE BlockInv'
  <2>1. /\ models' = [models EXCEPT ![f] = NoFile] /\ mine' = [mine EXCEPT ![f] = Nothing]
        /\ cmd' = NoCommand
    BY <1>5 DEF DeleteModel, Edited
  <2>2. /\ models'[f] = NoFile /\ mine'[f] = Nothing
        /\ \A g \in ModelFiles \ {f} : models'[g] = models[g] /\ mine'[g] = mine[g]
    BY <2>1 DEF OwnInv, FilesInv
  <2> QED BY <2>1, <2>2 DEF BlockInv, NoCommand, Nothing, NoFile, IsGo
<1>6. ASSUME EditQueries \/ \E o \in ModelObjects : ChangeSchema(o) PROVE BlockInv'
  <2>1. UNCHANGED <<models, mine>> /\ (cmd' = cmd \/ cmd' = NoCommand)
    BY <1>6 DEF EditQueries, ChangeSchema, Edited
  <2> QED BY <2>1 DEF BlockInv, NoCommand
<1> QED BY <1>2, <1>3, <1>4, <1>5, <1>6 DEF User

LEMMA StepBlocks == ASSUME BlocksApart, OwnInv, BlockInv, [Next]_vars PROVE BlockInv'
<1>1. CASE UNCHANGED vars BY <1>1 DEF vars, BlockInv
<1>2. CASE Command BY <1>2, CommandBlocks
<1>3. CASE Interrupt
  <2>1. UNCHANGED <<models, mine>> /\ cmd' = Failed BY <1>3 DEF Interrupt
  <2> QED BY <2>1, RestBlocks DEF Failed
<1>4. CASE User BY <1>4, UserBlocks
<1> QED BY <1>1, <1>2, <1>3, <1>4 DEF Next

\* Whatever the schema, the names and the edits are, and wherever the command is
\* killed: what a user writes into a model file is there as long as the file parses
\* (mergeTableFile, mergeStructFile, mergeEnumFile), if the user's constants do not
\* begin with the name of an enum.
THEOREM UserCodeSurvives == ASSUME BlocksApart PROVE Spec => []OwnCodeSurvives
<1>1. Init => OwnInv /\ BlockInv BY InitOwn, InitBlocks
<1>2. OwnInv /\ BlockInv /\ [Next]_vars => (OwnInv /\ BlockInv)' BY StepOwn, StepBlocks
<1>3. OwnInv /\ BlockInv => OwnCodeSurvives
  BY DEF OwnInv, FilesInv, BlockInv, HasBlocks, OwnCodeSurvives, Keeps, IsGo, NoFile, Torn
<1> QED
  BY <1>1, <1>2, <1>3, PTL DEF Spec
-----------------------------------------------------------------------------
(* The files after a merge. *)

LEMMA StructFieldsAre ==
  ASSUME NEW columns \in Seq(Columns)
  PROVE  /\ DOMAIN StructFields(columns) = 1..Len(columns)
         /\ \A i \in 1..Len(columns) :
              StructFields(columns)[i] = [name |-> PascalCase[columns[i].name],
                                          type |-> PgTypeToGo(columns[i].type, columns[i].nullable),
                                          tag  |-> "none"]
BY DEF StructFields

\* The fields of a table, one of each column.
LEMMA TableFieldsAre ==
  ASSUME NEW columns \in Seq(Columns), NEW S, S = Elements(TableFields(columns))
  PROVE  /\ TableFields(columns) \in Seq(S) /\ Len(TableFields(columns)) = Len(columns)
         /\ \A i \in 1..Len(columns) :
              /\ TableFields(columns)[i].name = PascalCase[columns[i].name]
              /\ TableFields(columns)[i].type = PgTypeToGo(columns[i].type, columns[i].nullable)
              /\ TableFields(columns)[i].tag \in {"json", "omitempty"}
<1>1. PICK n \in Nat : n = Len(columns) /\ DOMAIN columns = 1..n OBVIOUS
<1>2. PICK tags : tags = [i \in 1..n |-> IF columns[i].nullable THEN "omitempty" ELSE "json"] OBVIOUS
<1>3. PICK fields : fields = TableFields(columns) OBVIOUS
<1>4. fields = [i \in 1..n |-> [StructFields(columns)[i] EXCEPT !.tag = tags[i]]]
  BY <1>1, <1>2, <1>3 DEF TableFields
<1>5. ASSUME NEW i \in 1..n
      PROVE  /\ fields[i].name = PascalCase[columns[i].name]
             /\ fields[i].type = PgTypeToGo(columns[i].type, columns[i].nullable)
             /\ fields[i].tag \in {"json", "omitempty"}
  <2>1. PICK name, type : /\ name = PascalCase[columns[i].name]
                          /\ type = PgTypeToGo(columns[i].type, columns[i].nullable) OBVIOUS
  <2>2. StructFields(columns)[i] = [name |-> name, type |-> type, tag |-> "none"]
    BY <1>1, <2>1, StructFieldsAre
  <2>3. fields[i] = [name |-> name, type |-> type, tag |-> tags[i]] BY <1>4, <2>2
  <2>4. tags[i] \in {"json", "omitempty"} BY <1>2
  <2> QED BY <2>1, <2>3, <2>4
<1>6. fields \in Seq(Range(fields)) /\ Len(fields) = n
  <2>1. PICK R : R = Range(fields) OBVIOUS
  <2>2. DOMAIN fields = 1..n BY <1>4
  <2>3. \A i \in 1..n : fields[i] \in R BY <2>1, <2>2 DEF Range
  <2>4. fields = [i \in 1..n |-> fields[i]] BY <1>4
  <2>5. fields \in [1..n -> R] BY <2>3, <2>4
  <2> QED BY <2>1, <2>5, FunctionIsList
<1>7. S = Range(fields)
  <2>1. DOMAIN fields = 1..n BY <1>4
  <2> QED BY <1>3, <1>6, <2>1 DEF Elements, Range
<1> QED BY <1>1, <1>3, <1>5, <1>6, <1>7

\* Of the fields, those that the Extension struct has not, each once.
LEMMA UncoveredIs ==
  ASSUME NEW file, NEW columns \in Seq(Columns), FieldsApart(columns),
         NEW S, S = Elements(TableFields(columns)),
         NEW few, few = Uncovered(file, columns)
  PROVE  /\ few \in Seq(S)
         /\ Elements(few) = {f \in S : f.name \notin FieldNames(file.ext)}
         /\ Distinct(few)
<1>1. PICK fields : fields = TableFields(columns) OBVIOUS
<1>2. PICK set : set = {f \in S : f.name \notin FieldNames(file.ext)} OBVIOUS
<1>3. fields \in Seq(S) /\ Len(fields) = Len(columns) BY <1>1, TableFieldsAre
<1>4. \A i \in DOMAIN fields : fields[i] \in set <=> fields[i].name \notin FieldNames(file.ext)
  BY <1>2, <1>3
<1>5. few = Picked(fields, set)
  <2>1. PICK ss, tt :
          /\ ss = [i \in DOMAIN fields |-> IF fields[i].name \in FieldNames(file.ext)
                                           THEN <<>> ELSE <<fields[i]>>]
          /\ tt = [i \in DOMAIN fields |-> IF fields[i] \in set THEN <<fields[i]>> ELSE <<>>]
    OBVIOUS
  <2>2. ss = tt BY <1>4, <2>1
  <2>3. few = FlattenSeq(ss) BY <1>1, <2>1 DEF Uncovered
  <2> QED BY <2>1, <2>2, <2>3 DEF Picked
<1>6. Distinct(fields)
  <2>1. ASSUME NEW i \in 1..Len(fields), NEW j \in 1..Len(fields), fields[i] = fields[j]
        PROVE  i = j
    <3>1. fields[i].name = PascalCase[columns[i].name] /\ fields[j].name = PascalCase[columns[j].name]
      BY <1>1, <1>3, TableFieldsAre
    <3>2. i \in DOMAIN columns /\ j \in DOMAIN columns BY <1>3
    <3> QED BY <2>1, <3>1, <3>2 DEF FieldsApart
  <2> QED BY <2>1 DEF Distinct
<1>7. /\ few \in Seq(S \cap set) /\ Elements(few) = Elements(fields) \cap set /\ Distinct(few)
  BY <1>3, <1>5, <1>6, PickedIs, PickedType
<1>8. S \cap set = set /\ \A l \in Seq(set) : l \in Seq(S) BY <1>2
<1>9. few \in Seq(S) BY <1>7, <1>8
<1>10. Elements(fields) = S BY <1>1
<1> QED BY <1>2, <1>7, <1>8, <1>9, <1>10

\* Every field of the struct is that of a column the user has not declared ...
MainFields(main, columns, ext) ==
  \A i \in DOMAIN main :
    /\ main[i].name \notin FieldNames(ext)
    /\ main[i].tag # "none"
    /\ \E k \in DOMAIN columns :
         /\ main[i].name = PascalCase[columns[k].name]
         /\ main[i].type = PgTypeToGo(columns[k].type, columns[k].nullable)

\* ... and every column is declared, or has its field.
MainCovers(main, columns, ext) ==
  \A k \in DOMAIN columns :
    \/ PascalCase[columns[k].name] \in FieldNames(ext)
    \/ \E i \in DOMAIN main :
         /\ main[i].name = PascalCase[columns[k].name]
         /\ main[i].type = PgTypeToGo(columns[k].type, columns[k].nullable)

\* What the struct of a table holds.
LEMMA TableMainIs ==
  ASSUME NEW file, NEW columns \in Seq(Columns), FieldsApart(columns),
         NEW main, main = TableMain(file, columns)
  PROVE  /\ \E n \in Nat : DOMAIN main = 1..n /\ Len(main) = n
         /\ MainFields(main, columns, file.ext) /\ MainCovers(main, columns, file.ext)
         /\ \A i, j \in DOMAIN main : main[i].name = main[j].name => i = j
<1>1. PICK S, few : S = Elements(TableFields(columns)) /\ few = Uncovered(file, columns) OBVIOUS
<1>2. /\ few \in Seq(S) /\ Distinct(few)
      /\ Elements(few) = {f \in S : f.name \notin FieldNames(file.ext)}
  BY <1>1, UncoveredIs
<1>3. PICK n \in Nat : n = Len(few) /\ DOMAIN few = 1..n BY <1>2
<1>4. PICK fields : /\ fields = TableFields(columns)
                    /\ fields \in Seq(S) /\ Len(fields) = Len(columns)
                    /\ \A k \in 1..Len(columns) :
                         /\ fields[k].name = PascalCase[columns[k].name]
                         /\ fields[k].type = PgTypeToGo(columns[k].type, columns[k].nullable)
                         /\ fields[k].tag \in {"json", "omitempty"}
  BY <1>1, TableFieldsAre
<1>5. DOMAIN columns = 1..Len(columns) OBVIOUS
<1>6. main = [i \in 1..n |-> [name |-> few[i].name, type |-> few[i].type,
                              tag  |-> ExistingTag(file, few[i])]]
  BY <1>1, <1>3 DEF TableMain
<1>7. \A i \in 1..n : main[i].name = few[i].name /\ main[i].type = few[i].type
                      /\ main[i].tag = ExistingTag(file, few[i])
  BY <1>6
<1>8. DOMAIN main = 1..n BY <1>6
<1>9. ASSUME NEW i \in 1..n
      PROVE  /\ few[i].name \notin FieldNames(file.ext)
             /\ \E k \in DOMAIN columns : few[i] = fields[k]
  <2>1. few[i] \in Elements(few) BY <1>3 DEF Elements
  <2>2. few[i] \in S /\ few[i].name \notin FieldNames(file.ext) BY <1>2, <2>1
  <2>3. PICK k \in 1..Len(fields) : few[i] = fields[k] BY <1>1, <1>4, <2>2 DEF Elements
  <2> QED BY <1>4, <1>5, <2>2, <2>3
<1>10. ASSUME NEW i \in 1..n PROVE main[i].tag # "none"
  <2>1. PICK f : f = few[i] OBVIOUS
  <2>2. PICK tags : tags = {g.tag : g \in {h \in Range(file.main) : h.name = f.name /\ h.tag # "none"}}
    OBVIOUS
  <2>3. "none" \notin tags BY <2>2
  <2>4. ExistingTag(file, f) = IF tags = {} THEN f.tag ELSE CHOOSE tag \in tags : TRUE
    BY <2>2 DEF ExistingTag
  <2>5. f.tag \in {"json", "omitempty"} BY <1>4, <1>5, <1>9, <2>1
  <2>6. tags # {} => (CHOOSE tag \in tags : TRUE) \in tags OBVIOUS
  <2> QED BY <1>7, <2>1, <2>3, <2>4, <2>5, <2>6
<1>11. ASSUME NEW k \in DOMAIN columns
       PROVE  \/ PascalCase[columns[k].name] \in FieldNames(file.ext)
              \/ \E i \in DOMAIN main :
                   /\ main[i].name = PascalCase[columns[k].name]
                   /\ main[i].type = PgTypeToGo(columns[k].type, columns[k].nullable)
  <2>1. fields[k] \in S BY <1>1, <1>4, <1>5 DEF Elements
  <2>2. CASE fields[k].name \in FieldNames(file.ext) BY <1>4, <1>5, <2>2
  <2>3. CASE fields[k].name \notin FieldNames(file.ext)
    <3>1. fields[k] \in Elements(few) BY <1>2, <2>1, <2>3
    <3>2. PICK i \in 1..n : few[i] = fields[k] BY <1>3, <3>1 DEF Elements
    <3> QED BY <1>4, <1>5, <1>7, <1>8, <3>2
  <2> QED BY <2>2, <2>3
<1>12. ASSUME NEW i \in 1..n, NEW j \in 1..n, main[i].name = main[j].name PROVE i = j
  <2>1. PICK k \in DOMAIN columns : few[i] = fields[k] BY <1>9
  <2>2. PICK l \in DOMAIN columns : few[j] = fields[l] BY <1>9
  <2>3. PascalCase[columns[k].name] = PascalCase[columns[l].name]
    BY <1>4, <1>5, <1>7, <1>12, <2>1, <2>2
  <2>4. few[i] = few[j] BY <2>1, <2>2, <2>3 DEF FieldsApart
  <2> QED BY <1>2, <1>3, <2>4 DEF Distinct
<1>13. ASSUME NEW i \in DOMAIN main
       PROVE  /\ main[i].name \notin FieldNames(file.ext)
              /\ main[i].tag # "none"
              /\ \E k \in DOMAIN columns :
                   /\ main[i].name = PascalCase[columns[k].name]
                   /\ main[i].type = PgTypeToGo(columns[k].type, columns[k].nullable)
  <2>1. i \in 1..n BY <1>8
  <2>2. PICK k \in DOMAIN columns : few[i] = fields[k] BY <1>9, <2>1
  <2> QED BY <1>4, <1>5, <1>7, <1>9, <1>10, <2>1, <2>2
<1>14. DOMAIN main = 1..n /\ Len(main) = n
  <2>1. PICK R : R = Range(main) OBVIOUS
  <2>2. main \in [1..n -> R] BY <1>6, <1>8, <2>1 DEF Range
  <2> QED BY <1>8, <2>2, FunctionIsList
<1>15. MainFields(main, columns, file.ext) BY <1>13 DEF MainFields
<1>16. MainCovers(main, columns, file.ext) BY <1>11 DEF MainCovers
<1> QED BY <1>8, <1>12, <1>14, <1>15, <1>16

\* The struct of a merged file does not change in another merge.
LEMMA TableMainAgain ==
  ASSUME NEW file, NEW again, NEW columns \in Seq(Columns), FieldsApart(columns),
         again.main = TableMain(file, columns), again.ext = file.ext
  PROVE  TableMain(again, columns) = again.main
<1>1. PICK few, n : few = Uncovered(file, columns) /\ DOMAIN few = n OBVIOUS
<1>2. Uncovered(again, columns) = few BY <1>1 DEF Uncovered
<1>3. PICK main : main = again.main OBVIOUS
<1>4. main = [i \in n |-> [name |-> few[i].name, type |-> few[i].type,
                           tag  |-> ExistingTag(file, few[i])]]
  BY <1>1, <1>3 DEF TableMain
<1>5. /\ \A i \in n : main[i].tag # "none"
      /\ \A i, j \in n : main[i].name = main[j].name => i = j
  <2>1. main = TableMain(file, columns) /\ DOMAIN main = n BY <1>3, <1>4
  <2>2. MainFields(main, columns, file.ext) BY <2>1, TableMainIs
  <2>3. \A i, j \in DOMAIN main : main[i].name = main[j].name => i = j BY <2>1, TableMainIs
  <2> QED BY <2>1, <2>2, <2>3 DEF MainFields
<1>6. ASSUME NEW i \in n PROVE ExistingTag(again, few[i]) = ExistingTag(file, few[i])
  <2>1. PICK f : f = few[i] OBVIOUS
  <2>2. PICK tags : tags = {g.tag : g \in {h \in Range(main) : h.name = f.name /\ h.tag # "none"}}
    OBVIOUS
  <2>3. ExistingTag(again, f) = IF tags = {} THEN f.tag ELSE CHOOSE tag \in tags : TRUE
    BY <1>3, <2>2 DEF ExistingTag
  <2>4. DOMAIN main = n /\ main[i].name = f.name /\ main[i].tag = ExistingTag(file, f)
    BY <1>4, <2>1
  <2>5. tags = {main[i].tag} BY <1>5, <2>2, <2>4 DEF Range
  <2>6. (CHOOSE tag \in tags : TRUE) = main[i].tag BY <2>5
  <2> QED BY <2>1, <2>3, <2>4, <2>5, <2>6
<1>7. TableMain(again, columns) = [i \in n |-> [name |-> few[i].name, type |-> few[i].type,
                                                tag  |-> ExistingTag(again, few[i])]]
  BY <1>1, <1>2 DEF TableMain
<1> QED BY <1>3, <1>4, <1>6, <1>7

\* The packages that the user's code needs.
Needed(file) == (UNION {Names(f.type) : f \in Range(file.ext)}) \cup file.own

\* One block of constants is the enum's.
OneBlock(consts) ==
  consts \in Seq(Range(consts)) /\ \E k \in DOMAIN consts : NamedBlocks(consts) = {k}
OneBlockIs(consts, def) ==
  /\ consts \in Seq(Range(consts))
  /\ \E k \in DOMAIN consts : NamedBlocks(consts) = {k} /\ consts[k] = def

\* A model file of an object that parses: one block of constants if it is an enum's,
\* and the imports of the user's code.
ObjectFile(o, file) ==
  /\ file = GoFile(file.main, file.ext, file.consts, file.imports, file.own)
  /\ Needed(file) \subseteq file.imports
  /\ o \in Enums /\ BlocksApart => OneBlock(file.consts)
  /\ o \notin Enums => file.consts = <<>>

\* One that a merge with this definition has left.
Fitting(o, file, def) ==
  /\ ObjectFile(o, file)
  /\ o \in Enums /\ BlocksApart => OneBlockIs(file.consts, def)
  /\ o \in Composites => file.main = StructFields(def) /\ ImportsOf(def) \subseteq file.imports
  /\ o \in Tables =>
       /\ file.main = TableMain(file, def)
       /\ FilterImports(file.main, ImportsOf(def)) \subseteq file.imports
       /\ file.imports \subseteq FilterImports(file.main, ImportsOf(def)) \cup UsedPackages(file)

LEMMA UsedIs ==
  ASSUME NEW file
  PROVE  UsedPackages(file) = (UNION {Names(f.type) : f \in Range(file.main)}) \cup Needed(file)
<1>1. PICK N, M, P : /\ N = UNION {Names(f.type) : f \in Range(file.main)}
                     /\ M = UNION {Names(f.type) : f \in Range(file.ext)}
                     /\ P = UNION {Names(f.type) : f \in Range(file.main) \cup Range(file.ext)}
  OBVIOUS
<1>2. \A p : p \in N <=> \E f \in Range(file.main) : p \in Names(f.type) BY <1>1
<1>3. \A p : p \in M <=> \E f \in Range(file.ext) : p \in Names(f.type) BY <1>1
<1>4. \A p : p \in P <=> \E f \in Range(file.main) \cup Range(file.ext) : p \in Names(f.type)
  BY <1>1
<1>5. P = N \cup M BY <1>2, <1>3, <1>4
<1>6. UsedPackages(file) = P \cup file.own /\ Needed(file) = M \cup file.own
  BY <1>1 DEF UsedPackages, Needed
<1>7. P \cup file.own = N \cup (M \cup file.own) BY <1>5
<1> QED BY <1>1, <1>6, <1>7

LEMMA GoFileIs ==
  ASSUME NEW main, NEW ext, NEW consts, NEW imports, NEW own, NEW file,
         file = GoFile(main, ext, consts, imports, own)
  PROVE  /\ IsFile(file) /\ file.main = main /\ file.ext = ext /\ file.consts = consts
         /\ file.imports = imports /\ file.own = own
BY DEF GoFile, IsFile, IsGo

\* What a column imports, the type of its field names.
LEMMA TypeNames ==
  ASSUME NEW c \in Columns
  PROVE  Names(PgTypeToGo(c.type, c.nullable)) = ImportOf(c.type)
<1>1. c.type \in PgTypes /\ c.nullable \in BOOLEAN BY DEF Columns
<1>2. CASE c.type = "int4"
  <2>1. PgTypeToGo("int4", c.nullable) = IF c.nullable THEN "*int32" ELSE "int32" BY DEF PgTypeToGo
  <2>2. PgTypeToGo("int4", c.nullable) \in {"int32", "*int32"} BY <2>1
  <2>3. \A t \in {"int32", "*int32"} : Names(t) = {} BY DEF Names
  <2>4. ImportOf("int4") = {} BY DEF ImportOf
  <2> QED BY <1>2, <2>2, <2>3, <2>4
<1>3. CASE c.type = "timestamptz"
  <2>1. PgTypeToGo("timestamptz", c.nullable) = IF c.nullable THEN "*time.Time" ELSE "time.Time"
    BY DEF PgTypeToGo
  <2>2. PgTypeToGo("timestamptz", c.nullable) \in {"time.Time", "*time.Time"} BY <2>1
  <2>3. \A t \in {"time.Time", "*time.Time"} : Names(t) = {"time"} BY DEF Names
  <2>4. ImportOf("timestamptz") = {"time"} BY DEF ImportOf
  <2> QED BY <1>3, <2>2, <2>3, <2>4
<1>4. CASE c.type = "timestamptz[]"
  <2>1. PgTypeToGo("timestamptz[]", c.nullable) = "[]time.Time" BY DEF PgTypeToGo
  <2>2. Names("[]time.Time") = {"time"} BY DEF Names
  <2>3. ImportOf("timestamptz[]") = {"time"} BY DEF ImportOf
  <2> QED BY <1>4, <2>1, <2>2, <2>3
<1>5. CASE c.type = "jsonb"
  <2>1. PgTypeToGo("jsonb", c.nullable) = "json.RawMessage" BY DEF PgTypeToGo
  <2>2. Names("json.RawMessage") = {"json"} BY DEF Names
  <2>3. ImportOf("jsonb") = {"json"} BY DEF ImportOf
  <2> QED BY <1>5, <2>1, <2>2, <2>3
<1> QED BY <1>1, <1>2, <1>3, <1>4, <1>5 DEF PgTypes

\* The struct of a new file is the one a merge would leave.
LEMMA NewMain ==
  ASSUME NEW file, NEW columns \in Seq(Columns), FieldsApart(columns),
         file.main = TableFields(columns), file.ext = <<>>
  PROVE  TableMain(file, columns) = file.main
<1>1. PICK S, fields : S = Elements(TableFields(columns)) /\ fields = TableFields(columns) OBVIOUS
<1>2. /\ fields \in Seq(S) /\ Len(fields) = Len(columns)
      /\ \A k \in 1..Len(columns) : /\ fields[k].name = PascalCase[columns[k].name]
                                    /\ fields[k].tag \in {"json", "omitempty"}
  BY <1>1, TableFieldsAre
<1>3. PICK n \in Nat : n = Len(fields) /\ DOMAIN fields = 1..n BY <1>2
<1>4. Uncovered(file, columns) = fields
  <2>1. FieldNames(file.ext) = {} BY DEF FieldNames, Range
  <2>2. PICK ss : ss = [i \in DOMAIN fields |-> IF fields[i].name \in FieldNames(file.ext)
                                                THEN <<>> ELSE <<fields[i]>>] OBVIOUS
  <2>3. ss = [i \in DOMAIN fields |-> <<fields[i]>>] BY <2>1, <2>2
  <2>4. FlattenSeq([i \in DOMAIN fields |-> <<fields[i]>>]) = fields BY <1>2, FlattenSingles
  <2> QED BY <1>1, <2>2, <2>3, <2>4 DEF Uncovered
<1>5. \A i, j \in 1..n : fields[i].name = fields[j].name => i = j
  <2>1. SUFFICES ASSUME NEW i \in 1..n, NEW j \in 1..n, fields[i].name = fields[j].name
                 PROVE  i = j OBVIOUS
  <2>2. i \in DOMAIN columns /\ j \in DOMAIN columns BY <1>2, <1>3
  <2> QED BY <1>2, <1>3, <2>1, <2>2 DEF FieldsApart
<1>6. ASSUME NEW i \in 1..n PROVE ExistingTag(file, fields[i]) = fields[i].tag
  <2>1. PICK f : f = fields[i] OBVIOUS
  <2>2. PICK tags : tags = {g.tag : g \in {h \in Range(fields) : h.name = f.name /\ h.tag # "none"}}
    OBVIOUS
  <2>3. ExistingTag(file, f) = IF tags = {} THEN f.tag ELSE CHOOSE tag \in tags : TRUE
    BY <1>1, <2>2 DEF ExistingTag
  <2>4. f.tag # "none" BY <1>2, <1>3, <2>1
  <2>5. tags = {f.tag} BY <1>3, <1>5, <2>1, <2>2, <2>4 DEF Range
  <2>6. (CHOOSE tag \in tags : TRUE) = f.tag BY <2>5
  <2> QED BY <2>1, <2>3, <2>6
<1>7. TableMain(file, columns) = [i \in 1..n |-> [name |-> fields[i].name, type |-> fields[i].type,
                                                  tag |-> ExistingTag(file, fields[i])]]
  BY <1>3, <1>4 DEF TableMain
<1>8. fields = [i \in 1..n |-> [name |-> fields[i].name, type |-> fields[i].type,
                                tag |-> fields[i].tag]]
  <2>1. DOMAIN columns = 1..n BY <1>2, <1>3
  <2>2. PICK tags : tags = [i \in 1..n |-> IF columns[i].nullable THEN "omitempty" ELSE "json"] OBVIOUS
  <2>3. fields = [i \in 1..n |-> [StructFields(columns)[i] EXCEPT !.tag = tags[i]]]
    BY <1>1, <2>1, <2>2 DEF TableFields
  <2>4. ASSUME NEW i \in 1..n
        PROVE  fields[i] = [name |-> fields[i].name, type |-> fields[i].type, tag |-> fields[i].tag]
    <3>1. PICK name, type : /\ name = PascalCase[columns[i].name]
                            /\ type = PgTypeToGo(columns[i].type, columns[i].nullable) OBVIOUS
    <3>2. StructFields(columns)[i] = [name |-> name, type |-> type, tag |-> "none"]
      BY <1>2, <1>3, <3>1, StructFieldsAre
    <3>3. fields[i] = [name |-> name, type |-> type, tag |-> tags[i]] BY <2>3, <3>2
    <3> QED BY <3>3
  <2>5. DOMAIN fields = 1..n BY <1>3
  <2>6. fields = [i \in 1..n |-> fields[i]] BY <2>3
  <2> QED BY <2>4, <2>6
<1> QED BY <1>1, <1>6, <1>7, <1>8
-----------------------------------------------------------------------------
\* The labels of an enum begin with its name.
LEMMA LabelsNamed ==
  ASSUME NEW o \in Enums, NEW def \in Shapes[o]
  PROVE  Range(def) \cap TypeNamed # {}
<1>1. def \in Seq(TypeNamed) /\ def # <<>>
  BY ShapesAssumption, NamesAssumption DEF ModelObjects
<1>2. def[1] \in TypeNamed /\ 1 \in DOMAIN def BY <1>1
<1> QED BY <1>2 DEF Range

LEMMA NewModelFits ==
  ASSUME TablesApart, NEW o \in ModelObjects, NEW def \in Shapes[o]
  PROVE  Fitting(o, NewModel(o, def), def)
<1>1. CASE o \in Enums
  <2>1. NewModel(o, def) = GoFile(<<>>, <<>>, <<def>>, {}, {})
    BY <1>1, NamesAssumption DEF NewModel
  <2>2. PICK file : file = NewModel(o, def) OBVIOUS
  <2>3. /\ file.ext = <<>> /\ file.own = {} /\ file.consts = <<def>>
        /\ file = GoFile(file.main, file.ext, file.consts, file.imports, file.own)
    BY <2>1, <2>2, GoFileIs
  <2>4. Needed(file) = {} BY <2>3 DEF Needed, Range
  <2>5. o \notin Composites /\ o \notin Tables BY <1>1, NamesAssumption
  <2>6. OneBlockIs(<<def>>, def)
    <3>1. PICK one : one = <<def>> OBVIOUS
    <3>2. DOMAIN one = {1} /\ one[1] = def BY <3>1
    <3>3. one \in Seq(Range(one)) BY <3>1, <3>2 DEF Range
    <3>4. NamedBlocks(one) = {1} BY <1>1, <3>2, LabelsNamed DEF NamedBlocks
    <3> QED BY <3>1, <3>2, <3>3, <3>4 DEF OneBlockIs
  <2>7. OneBlock(file.consts) /\ OneBlockIs(file.consts, def) BY <2>3, <2>6 DEF OneBlock, OneBlockIs
  <2> QED BY <1>1, <2>2, <2>3, <2>4, <2>5, <2>7 DEF Fitting, ObjectFile
<1>2. CASE o \in Composites
  <2>1. NewModel(o, def) = GoFile(StructFields(def), <<>>, <<>>, ImportsOf(def), {})
    BY <1>2, NamesAssumption DEF NewModel
  <2>2. PICK file : file = NewModel(o, def) OBVIOUS
  <2>3. /\ file.ext = <<>> /\ file.own = {} /\ file.consts = <<>>
        /\ file.main = StructFields(def) /\ file.imports = ImportsOf(def)
        /\ file = GoFile(file.main, file.ext, file.consts, file.imports, file.own)
    BY <2>1, <2>2, GoFileIs
  <2>4. Needed(file) = {} BY <2>3 DEF Needed, Range
  <2>5. o \notin Enums /\ o \notin Tables BY <1>2, NamesAssumption
  <2> QED BY <2>2, <2>3, <2>4, <2>5 DEF Fitting, ObjectFile
<1>3. CASE o \in Tables
  <2>1. NewModel(o, def) = GoFile(TableFields(def), <<>>, <<>>, ImportsOf(def), {})
    BY <1>3, NamesAssumption DEF NewModel
  <2>2. PICK file : file = NewModel(o, def) OBVIOUS
  <2>3. /\ file.ext = <<>> /\ file.own = {} /\ file.consts = <<>>
        /\ file.main = TableFields(def) /\ file.imports = ImportsOf(def)
        /\ file = GoFile(file.main, file.ext, file.consts, file.imports, file.own)
    BY <2>1, <2>2, GoFileIs
  <2>4. Needed(file) = {} BY <2>3 DEF Needed, Range
  <2>5. o \notin Enums /\ o \notin Composites BY <1>3, NamesAssumption
  <2>6. def \in Seq(Columns) /\ FieldsApart(def) BY <1>3, ShapesAssumption DEF TablesApart
  <2>7. file.main = TableMain(file, def) BY <2>3, <2>6, NewMain
  <2>8. FilterImports(file.main, ImportsOf(def)) \subseteq file.imports BY <2>3 DEF FilterImports
  <2>9. file.imports \subseteq UsedPackages(file)
    <3>1. SUFFICES ASSUME NEW p \in ImportsOf(def) PROVE p \in UsedPackages(file) BY <2>3
    <3>2. PICK i \in DOMAIN def : p \in ImportOf(def[i].type) BY DEF ImportsOf, Range
    <3>3. i \in 1..Len(def) /\ def[i] \in Columns BY <2>6
    <3>4. p \in Names(PgTypeToGo(def[i].type, def[i].nullable)) BY <3>2, <3>3, TypeNames
    <3>5. PICK main : main = file.main OBVIOUS
    <3>6. main[i].type = PgTypeToGo(def[i].type, def[i].nullable) /\ i \in DOMAIN main
      <4>1. PICK S : S = Elements(TableFields(def)) OBVIOUS
      <4>2. main \in Seq(S) /\ Len(main) = Len(def) BY <2>3, <2>6, <3>5, <4>1, TableFieldsAre
      <4>3. main[i].type = PgTypeToGo(def[i].type, def[i].nullable)
        BY <2>3, <2>6, <3>3, <3>5, <4>1, TableFieldsAre
      <4> QED BY <3>3, <4>2, <4>3
    <3>7. main[i] \in Range(main) BY <3>6 DEF Range
    <3> QED BY <3>4, <3>5, <3>6, <3>7, UsedIs
  <2> QED BY <2>2, <2>3, <2>4, <2>5, <2>7, <2>8, <2>9 DEF Fitting, ObjectFile
<1> QED BY <1>1, <1>2, <1>3 DEF ModelObjects

\* The one block of the enum is the one that is replaced.
LEMMA BlockReplaced ==
  ASSUME NEW old, OneBlock(old), NEW def, Range(def) \cap TypeNamed # {}, NEW new,
         new = IF NamedBlocks(old) = {} THEN <<def>> \o old
               ELSE [old EXCEPT ![Max(NamedBlocks(old))] = def]
  PROVE  OneBlockIs(new, def)
<1>1. PICK k \in DOMAIN old : NamedBlocks(old) = {k} BY DEF OneBlock
<1>2. old \in Seq(Range(old)) BY DEF OneBlock
<1>3. PICK n \in Nat : DOMAIN old = 1..n BY <1>2
<1>4. Max({k}) = k BY <1>3 DEF Max
<1>5. new = [old EXCEPT ![k] = def] BY <1>1, <1>4
<1>6. DOMAIN new = 1..n /\ new[k] = def /\ \A i \in (1..n) \ {k} : new[i] = old[i]
  BY <1>3, <1>5
<1>7. new \in Seq(Range(new))
  <2>1. new = [i \in 1..n |-> new[i]] BY <1>3, <1>5
  <2>2. new \in [1..n -> Range(new)] BY <1>6, <2>1 DEF Range
  <2> QED BY <1>3, <2>2, FunctionIsList
<1>8. NamedBlocks(new) = {k}
  <2>1. \A i \in 1..n : i \in NamedBlocks(new) <=> Range(new[i]) \cap TypeNamed # {}
    BY <1>6 DEF NamedBlocks
  <2>2. \A i \in 1..n : i \in NamedBlocks(old) <=> Range(old[i]) \cap TypeNamed # {}
    BY <1>3 DEF NamedBlocks
  <2>3. NamedBlocks(new) \subseteq 1..n BY <1>6 DEF NamedBlocks
  <2>4. NamedBlocks(old) \subseteq 1..n /\ k \in 1..n BY <1>1, <1>3
  <2>5. k \in NamedBlocks(new) BY <1>6, <2>1, <2>4
  <2>6. ASSUME NEW i \in 1..n, i # k PROVE i \notin NamedBlocks(new)
    <3>1. i \notin NamedBlocks(old) BY <1>1, <2>6
    <3>2. new[i] = old[i] BY <1>6, <2>6
    <3> QED BY <2>1, <2>2, <3>1, <3>2
  <2> QED BY <2>3, <2>5, <2>6
<1> QED BY <1>3, <1>6, <1>7, <1>8 DEF OneBlockIs

LEMMA MergedModelFits ==
  ASSUME TablesApart, NEW o \in ModelObjects, NEW def \in Shapes[o], NEW file, ObjectFile(o, file)
  PROVE  Fitting(o, MergedModel(o, file, def), def)
<1>0. /\ Needed(file) \subseteq file.imports
      /\ file = GoFile(file.main, file.ext, file.consts, file.imports, file.own)
  BY DEF ObjectFile
<1>1. CASE o \in Enums
  <2>1. MergedModel(o, file, def) = MergeEnumFile(file, def)
    BY <1>1, NamesAssumption DEF MergedModel
  <2>2. PICK new : new = MergeEnumFile(file, def) OBVIOUS
  <2>3. PICK old : old = file.consts OBVIOUS
  <2>4. PICK blocks : blocks = IF NamedBlocks(old) = {} THEN <<def>> \o old
                               ELSE [old EXCEPT ![Max(NamedBlocks(old))] = def] OBVIOUS
  <2>6. new = [file EXCEPT !.consts = blocks] BY <2>2, <2>3, <2>4 DEF MergeEnumFile
  <2>a. new = GoFile(file.main, file.ext, blocks, file.imports, file.own)
    BY <1>0, <2>6 DEF GoFile
  <2>7. /\ new.consts = blocks /\ new.ext = file.ext /\ new.own = file.own
        /\ new.imports = file.imports
        /\ new = GoFile(new.main, new.ext, new.consts, new.imports, new.own)
    BY <2>a, GoFileIs
  <2>8. Needed(new) = Needed(file) BY <2>7 DEF Needed
  <2>9. o \notin Composites /\ o \notin Tables BY <1>1, NamesAssumption
  <2>10. BlocksApart => OneBlockIs(blocks, def)
    <3>1. SUFFICES ASSUME BlocksApart PROVE OneBlockIs(blocks, def) OBVIOUS
    <3>2. OneBlock(old) BY <1>1, <2>3, <3>1 DEF ObjectFile
    <3> QED BY <1>1, <2>4, <3>2, LabelsNamed, BlockReplaced
  <2>11. OneBlockIs(blocks, def) => OneBlock(blocks) BY DEF OneBlock, OneBlockIs
  <2> QED BY <1>0, <1>1, <2>1, <2>2, <2>7, <2>8, <2>9, <2>10, <2>11 DEF Fitting, ObjectFile
<1>2. CASE o \in Composites
  <2>1. MergedModel(o, file, def) = MergeStructFile(file, def)
    BY <1>2, NamesAssumption DEF MergedModel
  <2>2. PICK new : new = MergeStructFile(file, def) OBVIOUS
  <2>a. new = GoFile(StructFields(def), file.ext, file.consts, file.imports \cup ImportsOf(def),
                     file.own)
    <3>1. PICK main, ext, consts, imports, own :
            /\ file = GoFile(main, ext, consts, imports, own)
            /\ ext = file.ext /\ consts = file.consts /\ imports = file.imports /\ own = file.own
      BY <1>0
    <3>2. PICK fields, more : fields = StructFields(def) /\ more = imports \cup ImportsOf(def) OBVIOUS
    <3>3. new = [file EXCEPT !.main = fields, !.imports = more]
      BY <2>2, <3>1, <3>2 DEF MergeStructFile
    <3>4. new = GoFile(fields, ext, consts, more, own) BY <3>1, <3>3 DEF GoFile
    <3> QED BY <3>1, <3>2, <3>4
  <2>3. /\ new.consts = file.consts /\ new.ext = file.ext /\ new.own = file.own
        /\ new.imports = file.imports \cup ImportsOf(def) /\ new.main = StructFields(def)
        /\ new = GoFile(new.main, new.ext, new.consts, new.imports, new.own)
    BY <2>a, GoFileIs
  <2>4. Needed(new) = Needed(file) BY <2>3 DEF Needed
  <2>5. o \notin Enums /\ o \notin Tables BY <1>2, NamesAssumption
  <2>6. file.consts = <<>> BY <2>5 DEF ObjectFile
  <2> QED BY <1>0, <2>1, <2>2, <2>3, <2>4, <2>5, <2>6 DEF Fitting, ObjectFile
<1>3. CASE o \in Tables
  <2>1. MergedModel(o, file, def) = MergeTableFile(file, def)
    BY <1>3, NamesAssumption DEF MergedModel
  <2>2. PICK new, main : new = MergeTableFile(file, def) /\ main = TableMain(file, def) OBVIOUS
  <2>3. PICK needed : needed = FilterImports(main, ImportsOf(def)) OBVIOUS
  <2>4. PICK mid : mid = [file EXCEPT !.main = main] OBVIOUS
  <2>a. mid = GoFile(main, file.ext, file.consts, file.imports, file.own)
    BY <1>0, <2>4 DEF GoFile
  <2>5. /\ mid.main = main /\ mid.ext = file.ext /\ mid.own = file.own
        /\ mid.imports = file.imports /\ mid.consts = file.consts
    BY <2>a, GoFileIs
  <2>6. PICK cut : cut = {p \in file.imports : p \in needed \/ p \in UsedPackages(mid)} OBVIOUS
  <2>7. RemoveUnusedImports(mid, needed) = [mid EXCEPT !.imports = cut]
    BY <2>5, <2>6 DEF RemoveUnusedImports
  <2>8. new = EnsureImports([mid EXCEPT !.imports = cut], needed)
    BY <2>2, <2>3, <2>4, <2>7 DEF MergeTableFile
  <2>b. new = GoFile(main, file.ext, file.consts, cut \cup needed, file.own)
    BY <2>8, <2>a DEF EnsureImports, GoFile
  <2>9. /\ new.main = main /\ new.ext = file.ext /\ new.own = file.own
        /\ new.imports = cut \cup needed /\ new.consts = file.consts
        /\ new = GoFile(new.main, new.ext, new.consts, new.imports, new.own)
    BY <2>b, GoFileIs
  <2>10. Needed(new) = Needed(file) BY <2>9 DEF Needed
  <2>11. UsedPackages(new) = UsedPackages(mid) BY <2>5, <2>9 DEF UsedPackages
  <2>12. Needed(new) \subseteq UsedPackages(mid)
    <3>1. PICK N : N = UNION {Names(f.type) : f \in Range(new.main)} OBVIOUS
    <3>2. UsedPackages(new) = N \cup Needed(new) BY <3>1, UsedIs
    <3> QED BY <2>11, <3>2
  <2>13. Needed(new) \subseteq new.imports BY <1>0, <2>6, <2>9, <2>10, <2>12
  <2>14. new.imports \subseteq needed \cup UsedPackages(new) BY <2>6, <2>9, <2>11
  <2>15. def \in Seq(Columns) /\ FieldsApart(def) BY <1>3, ShapesAssumption DEF TablesApart
  <2>16. new.main = TableMain(new, def) BY <2>2, <2>9, <2>15, TableMainAgain
  <2>17. o \notin Enums /\ o \notin Composites BY <1>3, NamesAssumption
  <2>18. file.consts = <<>> BY <2>17 DEF ObjectFile
  <2> QED BY <2>1, <2>2, <2>3, <2>9, <2>13, <2>14, <2>16, <2>17, <2>18 DEF Fitting, ObjectFile
<1> QED BY <1>1, <1>2, <1>3 DEF ModelObjects

\* A merge of what a merge has left changes nothing.
LEMMA FittingStays ==
  ASSUME BlocksApart, NEW o \in ModelObjects, NEW def, NEW file, Fitting(o, file, def)
  PROVE  MergedModel(o, file, def) = file
<1>0. PICK main, ext, consts, imports, own :
        /\ file = GoFile(main, ext, consts, imports, own)
        /\ file.main = main /\ file.ext = ext /\ file.consts = consts
        /\ file.imports = imports /\ file.own = own
  BY GoFileIs DEF Fitting, ObjectFile
<1>1. CASE o \in Enums
  <2>1. MergedModel(o, file, def) = MergeEnumFile(file, def)
    BY <1>1, NamesAssumption DEF MergedModel
  <2>2. PICK one : one = file.consts OBVIOUS
  <2>3. OneBlockIs(one, def) BY <1>1, <2>2 DEF Fitting
  <2>a. PICK k \in DOMAIN one : NamedBlocks(one) = {k} /\ one[k] = def BY <2>3 DEF OneBlockIs
  <2>b. one \in Seq(Range(one)) BY <2>3 DEF OneBlockIs
  <2>c. Max({k}) = k BY <2>a, <2>b DEF Max
  <2>4. [one EXCEPT ![k] = def] = one BY <2>a, <2>b
  <2>5. MergeEnumFile(file, def) = [file EXCEPT !.consts = one]
    BY <2>2, <2>4, <2>a, <2>c DEF MergeEnumFile
  <2> QED BY <1>0, <2>1, <2>2, <2>5 DEF GoFile
<1>2. CASE o \in Composites
  <2>1. MergedModel(o, file, def) = MergeStructFile(file, def)
    BY <1>2, NamesAssumption DEF MergedModel
  <2>2. file.main = StructFields(def) /\ file.imports \cup ImportsOf(def) = file.imports
    BY <1>2 DEF Fitting
  <2>3. MergeStructFile(file, def) = [file EXCEPT !.main = file.main, !.imports = file.imports]
    BY <2>2 DEF MergeStructFile
  <2> QED BY <1>0, <2>1, <2>3 DEF GoFile
<1>3. CASE o \in Tables
  <2>1. MergedModel(o, file, def) = MergeTableFile(file, def)
    BY <1>3, NamesAssumption DEF MergedModel
  <2>2. PICK needed : needed = FilterImports(file.main, ImportsOf(def)) OBVIOUS
  <2>3. /\ file.main = TableMain(file, def) /\ needed \subseteq file.imports
        /\ file.imports \subseteq needed \cup UsedPackages(file)
    BY <1>3, <2>2 DEF Fitting
  <2>4. [file EXCEPT !.main = TableMain(file, def)] = file BY <1>0, <2>3 DEF GoFile
  <2>5. RemoveUnusedImports(file, needed) = file
    <3>1. {p \in file.imports : p \in needed \/ p \in UsedPackages(file)} = file.imports BY <2>3
    <3> QED BY <1>0, <3>1 DEF RemoveUnusedImports, GoFile
  <2>6. EnsureImports(file, needed) = file
    <3>1. file.imports \cup needed = file.imports BY <2>3
    <3> QED BY <1>0, <3>1 DEF EnsureImports, GoFile
  <2>7. MergeTableFile(file, def) = file BY <2>2, <2>3, <2>4, <2>5, <2>6 DEF MergeTableFile
  <2> QED BY <2>1, <2>7
<1> QED BY <1>1, <1>2, <1>3 DEF ModelObjects
-----------------------------------------------------------------------------
(* Types. *)

TypeInv ==
  /\ GenerateTypeOK
  /\ DOMAIN schema = ModelObjects /\ DOMAIN bindings = BindingFiles
  /\ \A o \in ModelObjects : cmd.seen[o] \in Shapes[o] \cup {Absent}

Fields == {"pc", "clean", "seen", "tables", "todo", "queries", "extensions", "text"}

LEMMA InitTypes == Init => TypeInv
<1> SUFFICES ASSUME Init PROVE TypeInv OBVIOUS
<1>1. PICK start \in Starts : schema = start.schema /\ bindings = start.bindings BY DEF Init
<1>2. /\ models = [f \in ModelFiles |-> NoFile] /\ cmd = NoCommand BY DEF Init
<1>3. \A f \in ModelFiles : models[f].state = "none" BY <1>2 DEF NoFile
<1>4. /\ cmd.pc = "idle" /\ cmd.text = NoFile /\ cmd.extensions = <<>>
      /\ \A o \in ModelObjects : cmd.seen[o] = Absent
  BY <1>2 DEF NoCommand
<1> QED BY <1>1, <1>3, <1>4, StartsAssumption
        DEF TypeInv, GenerateTypeOK, Resting, Running, IsGo, NoFile

\* A step to a command that has no text and no extensions.
LEMMA StillTyped ==
  ASSUME TypeInv, OwnInv', bindings' = bindings, schema' = schema,
         cmd'.pc \in Resting \cup Running, cmd'.pc \notin {"models", "writeModel", "writeBinding"},
         ~IsGo(cmd'.text), cmd'.extensions = <<>>,
         \A o \in ModelObjects : cmd'.seen[o] \in Shapes[o] \cup {Absent}
  PROVE  TypeInv'
<1>1. \A f \in ModelFiles : models'[f].state \in {"none", "torn", "go"}
  BY DEF OwnInv, FilesInv, NoFile, Torn, IsFile, IsGo
<1> QED BY <1>1 DEF TypeInv, GenerateTypeOK

LEMMA NoCommandTyped ==
  ASSUME TypeInv, OwnInv', bindings' = bindings, schema' = schema, cmd' \in {NoCommand, Failed}
  PROVE  TypeInv'
<1>1. /\ cmd'.pc \in Resting /\ cmd'.text = NoFile /\ cmd'.extensions = <<>>
      /\ \A o \in ModelObjects : cmd'.seen[o] = Absent
  BY DEF NoCommand, Failed, Resting
<1> QED BY <1>1, StillTyped DEF Resting, IsGo, NoFile

LEMMA ModelFilesTyped ==
  ASSUME OwnInv PROVE \A f \in ModelFiles : models[f].state \in {"none", "torn", "go"}
BY DEF OwnInv, FilesInv, NoFile, Torn, IsFile, IsGo

LEMMA StartTyped == ASSUME TypeInv, OwnInv, OwnInv', StartGenerate PROVE TypeInv'
<1> DEFINE enums == Present(schema, Enums)
           comps == Present(schema, Composites)
           tabs  == Present(schema, Tables)
<1>1. PICK tables \in SetToSeqs(tabs) :
        cmd' = [NoCommand EXCEPT !.pc = "models", !.seen = schema, !.tables = tables,
                                 !.todo = SetToSeq(enums) \o SetToSeq(comps) \o tables]
  BY DEF StartGenerate
<1>2. UNCHANGED <<schema, models, bindings>> BY DEF StartGenerate
<1>3. PICK todo : todo = SetToSeq(enums) \o SetToSeq(comps) \o tables OBVIOUS
<1>4. /\ cmd'.pc = "models" /\ cmd'.seen = schema /\ cmd'.todo = todo
      /\ cmd'.text = NoFile /\ cmd'.extensions = <<>>
  BY <1>1, <1>3 DEF NoCommand
<1>5. Elements(todo) \subseteq Present(schema, ModelObjects) /\ todo \in Seq(ModelObjects)
  <2>1. enums \subseteq Enums /\ comps \subseteq Composites /\ tabs \subseteq Tables BY DEF Present
  <2>2. /\ IsFiniteSet(enums) /\ IsFiniteSet(comps) /\ IsFiniteSet(tabs)
    BY <2>1, NamesAssumption, FS_Subset DEF ModelObjects
  <2>3. PICK P : P = Present(schema, ModelObjects) OBVIOUS
  <2>4. enums \subseteq P /\ comps \subseteq P /\ tabs \subseteq P
    BY <2>3 DEF Present, ModelObjects
  <2>5. PICK A, B : A = enums /\ B = comps OBVIOUS
  <2>6. SetToSeq(A) \in Seq(A) /\ SetToSeq(B) \in Seq(B) BY <2>2, <2>5, SetListed
  <2>7. tables \in Seq(tabs)
    <3>1. Cardinality(tabs) \in Nat BY <2>2, FS_CardinalityType
    <3>2. tables \in [1..Cardinality(tabs) -> tabs] BY DEF SetToSeqs
    <3> QED BY <3>1, <3>2, FunctionIsList
  <2>8. PICK a, b, c : a = SetToSeq(A) /\ b = SetToSeq(B) /\ c = tables OBVIOUS
  <2>9. a \in Seq(P) /\ b \in Seq(P) /\ c \in Seq(P)
    <3>1. A \subseteq P /\ B \subseteq P BY <2>4, <2>5
    <3>2. \A X : X \subseteq P => \A l \in Seq(X) : l \in Seq(P) OBVIOUS
    <3> QED BY <2>4, <2>6, <2>7, <2>8, <3>1, <3>2
  <2>10. todo = (a \o b) \o c BY <1>3, <2>5, <2>8
  <2>11. todo \in Seq(P) BY <2>9, <2>10
  <2>12. Elements(todo) \subseteq P BY <2>11 DEF Elements
  <2>13. P \subseteq ModelObjects BY <2>3 DEF Present
  <2>14. \A l \in Seq(P) : l \in Seq(ModelObjects) BY <2>13
  <2> QED BY <2>3, <2>11, <2>12, <2>14
<1>6. \A o \in Range(todo) : schema[o] # Absent
  <2>1. DOMAIN todo = 1..Len(todo) BY <1>5
  <2> QED BY <1>5, <2>1 DEF Range, Elements, Present
<1>7. \A o \in ModelObjects : schema[o] \in Shapes[o] \cup {Absent} BY DEF TypeInv, GenerateTypeOK
<1> QED BY <1>2, <1>4, <1>6, <1>7 DEF TypeInv, GenerateTypeOK, Running, IsGo, NoFile

LEMMA SkipTyped == ASSUME TypeInv, OwnInv, OwnInv', SkipTable PROVE TypeInv'
<1>1. /\ cmd.pc = "models" /\ cmd.todo # <<>> /\ UNCHANGED <<schema, models, bindings>>
      /\ cmd' = [cmd EXCEPT !.todo = Tail(@)]
  BY DEF SkipTable
<1>2. DOMAIN cmd = Fields BY DEF OwnInv, CommandInv, Fields
<1>3. /\ cmd'.pc = "models" /\ cmd'.text = cmd.text /\ cmd'.todo = Tail(cmd.todo)
      /\ cmd'.seen = cmd.seen /\ cmd'.extensions = cmd.extensions
  BY <1>1, <1>2 DEF Fields
<1>4. cmd.extensions = <<>> /\ ~IsGo(cmd.text) BY <1>1 DEF TypeInv, GenerateTypeOK
<1>5. Range(Tail(cmd.todo)) \subseteq Range(cmd.todo)
  <2>1. PICK todo : todo = cmd.todo OBVIOUS
  <2>2. todo \in Seq(ModelObjects) /\ todo # <<>> BY <1>1, <2>1 DEF OwnInv, CommandInv
  <2>3. /\ DOMAIN Tail(todo) = 1..(Len(todo) - 1)
        /\ \A i \in 1..(Len(todo) - 1) : Tail(todo)[i] = todo[i + 1] /\ i + 1 \in DOMAIN todo
    BY <2>2
  <2> QED BY <2>1, <2>3 DEF Range
<1> QED BY <1>1, <1>3, <1>4, <1>5 DEF TypeInv, GenerateTypeOK, Running

LEMMA MergeTyped == ASSUME TypeInv, OwnInv, OwnInv', MergeModel PROVE TypeInv'
<1> DEFINE o == Head(cmd.todo)
           f == ModelFile[o]
<1>0. UNCHANGED <<schema, bindings>> /\ cmd.pc = "models" BY DEF MergeModel
<1>1. CASE models[f] = Torn
  <2>1. cmd' = Failed BY <1>1 DEF MergeModel
  <2> QED BY <1>0, <2>1, NoCommandTyped
<1>2. CASE models[f] # Torn
  <2>1. PICK text : cmd' = [cmd EXCEPT !.pc = "writeModel", !.text = text] BY <1>2 DEF MergeModel
  <2>2. DOMAIN cmd = Fields BY DEF OwnInv, CommandInv, Fields
  <2>3. /\ cmd'.pc = "writeModel" /\ cmd'.text = text /\ cmd'.todo = cmd.todo
        /\ cmd'.seen = cmd.seen /\ cmd'.extensions = cmd.extensions
    BY <2>1, <2>2 DEF Fields
  <2>4. IsGo(cmd'.text) BY <2>3 DEF OwnInv, CommandInv, IsFile
  <2>5. cmd.extensions = <<>> BY <1>0 DEF TypeInv, GenerateTypeOK
  <2>6. \A g \in ModelFiles : models'[g].state \in {"none", "torn", "go"}
    BY DEF OwnInv, FilesInv, NoFile, Torn, IsFile, IsGo
  <2> QED BY <1>0, <2>3, <2>4, <2>5, <2>6 DEF TypeInv, GenerateTypeOK, Running
<1> QED BY <1>1, <1>2

LEMMA WriteTyped == ASSUME TypeInv, OwnInv, OwnInv', WriteModel PROVE TypeInv'
<1>1. /\ cmd.pc = "writeModel" /\ UNCHANGED <<schema, bindings>>
      /\ cmd' = [cmd EXCEPT !.pc = "models", !.todo = Tail(@), !.text = NoFile]
  BY DEF WriteModel
<1>2. DOMAIN cmd = Fields BY DEF OwnInv, CommandInv, Fields
<1>3. /\ cmd'.pc = "models" /\ cmd'.text = NoFile /\ cmd'.todo = Tail(cmd.todo)
      /\ cmd'.seen = cmd.seen /\ cmd'.extensions = cmd.extensions
  BY <1>1, <1>2 DEF Fields
<1>4. cmd.extensions = <<>> BY <1>1 DEF TypeInv, GenerateTypeOK
<1>5. Range(Tail(cmd.todo)) \subseteq Range(cmd.todo)
  <2>1. PICK todo : todo = cmd.todo OBVIOUS
  <2>2. todo \in Seq(ModelObjects) /\ todo # <<>> BY <1>1, <2>1 DEF OwnInv, CommandInv
  <2>3. /\ DOMAIN Tail(todo) = 1..(Len(todo) - 1)
        /\ \A i \in 1..(Len(todo) - 1) : Tail(todo)[i] = todo[i + 1] /\ i + 1 \in DOMAIN todo
    BY <2>2
  <2> QED BY <2>1, <2>3 DEF Range
<1>6. \A g \in ModelFiles : models'[g].state \in {"none", "torn", "go"}
  BY DEF OwnInv, FilesInv, NoFile, Torn, IsFile, IsGo
<1> QED BY <1>1, <1>3, <1>4, <1>5, <1>6 DEF TypeInv, GenerateTypeOK, Running, IsGo, NoFile

\* The command's later steps.
LEMMA BindingsTyped ==
  ASSUME TypeInv, OwnInv, OwnInv',
         ReadQueries \/ IntrospectQueries \/ WriteQuerier \/ OpenBinding \/ WriteBinding
           \/ BindingsWritten \/ Clean
  PROVE  TypeInv'
<1>1. DOMAIN cmd = Fields BY DEF OwnInv, CommandInv, Fields
<1>2. UNCHANGED <<schema, models>>
  BY DEF ReadQueries, IntrospectQueries, WriteQuerier, OpenBinding, WriteBinding, BindingsWritten, Clean
<1>3. CASE ReadQueries
  <2>1. /\ cmd.pc = "models" /\ bindings' = bindings
        /\ \/ \E clean : cmd' = [cmd EXCEPT !.pc = "done", !.clean = clean]
           \/ \E queries : cmd' = [cmd EXCEPT !.pc = "introspect", !.queries = queries]
    BY <1>3, Zenon DEF ReadQueries
  <2>2. /\ cmd'.pc \in {"done", "introspect"} /\ cmd'.text = cmd.text /\ cmd'.seen = cmd.seen
        /\ cmd'.extensions = cmd.extensions
    BY <1>1, <2>1 DEF Fields
  <2>3. cmd.extensions = <<>> /\ ~IsGo(cmd.text) BY <2>1 DEF TypeInv, GenerateTypeOK
  <2> QED BY <1>2, <2>1, <2>2, <2>3, StillTyped DEF TypeInv, Running, Resting
<1>4. CASE IntrospectQueries
  <2>1. /\ cmd.pc = "introspect" /\ bindings' = bindings
        /\ \/ \E queries : cmd' = [cmd EXCEPT !.pc = "querier", !.queries = queries]
           \/ cmd' = Failed
    BY <1>4, Zenon DEF IntrospectQueries
  <2>2. CASE cmd' = Failed BY <1>2, <2>1, <2>2, NoCommandTyped
  <2>3. CASE \E queries : cmd' = [cmd EXCEPT !.pc = "querier", !.queries = queries]
    <3>1. /\ cmd'.pc = "querier" /\ cmd'.text = cmd.text /\ cmd'.seen = cmd.seen
          /\ cmd'.extensions = cmd.extensions
      BY <1>1, <2>3 DEF Fields
    <3>2. cmd.extensions = <<>> /\ ~IsGo(cmd.text) BY <2>1 DEF TypeInv, GenerateTypeOK
    <3> QED BY <1>2, <2>1, <3>1, <3>2, StillTyped DEF TypeInv, Running
  <2> QED BY <2>1, <2>2, <2>3
<1>5. CASE WriteQuerier
  <2>1. /\ cmd.pc = "querier"
        /\ \/ bindings' = [bindings EXCEPT !["querier"] = Torn] /\ cmd' = cmd
           \/ /\ bindings' = [bindings EXCEPT !["querier"] = Querier]
              /\ \E exts : cmd' = [cmd EXCEPT !.pc = "bindings", !.todo = cmd.queries,
                                              !.extensions = exts]
    BY <1>5, Zenon DEF WriteQuerier
  <2>2. /\ cmd'.pc \in {"querier", "bindings"} /\ cmd'.text = cmd.text /\ cmd'.seen = cmd.seen
        /\ cmd'.pc = "querier" => cmd'.extensions = cmd.extensions
    BY <1>1, <2>1 DEF Fields
  <2>3. ~IsGo(cmd.text) /\ cmd.extensions = <<>> BY <2>1 DEF TypeInv, GenerateTypeOK
  <2>4. /\ DOMAIN bindings' = BindingFiles
        /\ \A f \in BindingFiles : bindings'[f].state \in {"none", "torn", "go", "querier"}
    <3>1. PICK file \in {Torn, Querier} : bindings' = [bindings EXCEPT !["querier"] = file]
      BY <2>1
    <3>2. file.state \in {"torn", "querier"} BY <3>1 DEF Torn, Querier
    <3> QED BY <3>1, <3>2 DEF TypeInv, GenerateTypeOK
  <2> QED BY <1>2, <2>2, <2>3, <2>4 DEF TypeInv, GenerateTypeOK, Running
<1>6. CASE OpenBinding
  <2> DEFINE q == Head(cmd.todo)
  <2>1. PICK text : /\ text = QueryGo(q.query, q.columns, cmd.tables, cmd.seen, cmd.extensions)
                    /\ cmd' = [cmd EXCEPT !.pc = "writeBinding", !.text = text]
    BY <1>6 DEF OpenBinding
  <2>2. bindings' = [bindings EXCEPT ![BindingFile[q.query.name]] = Torn] /\ cmd.pc = "bindings"
    BY <1>6 DEF OpenBinding
  <2>3. text.state = "go" BY <2>1 DEF QueryGo
  <2>4. /\ cmd'.pc = "writeBinding" /\ cmd'.text = text /\ cmd'.seen = cmd.seen
    BY <1>1, <2>1 DEF Fields
  <2>5. /\ DOMAIN bindings' = BindingFiles
        /\ \A f \in BindingFiles : bindings'[f].state \in {"none", "torn", "go", "querier"}
    BY <2>2 DEF TypeInv, GenerateTypeOK, Torn
  <2> QED BY <1>2, <2>3, <2>4, <2>5 DEF TypeInv, GenerateTypeOK, Running, IsGo
<1>7. CASE WriteBinding
  <2>1. /\ cmd.pc = "writeBinding"
        /\ bindings' = [bindings EXCEPT ![BindingFile[cmd.text.query]] = cmd.text]
        /\ \E todo : cmd' = [cmd EXCEPT !.pc = "bindings", !.todo = todo, !.text = NoFile]
    BY <1>7, Zenon DEF WriteBinding
  <2>2. /\ cmd'.pc = "bindings" /\ cmd'.text = NoFile /\ cmd'.seen = cmd.seen
    BY <1>1, <2>1 DEF Fields
  <2>3. cmd.text.state = "go" BY <2>1 DEF TypeInv, GenerateTypeOK, IsGo
  <2>4. /\ DOMAIN bindings' = BindingFiles
        /\ \A f \in BindingFiles : bindings'[f].state \in {"none", "torn", "go", "querier"}
    BY <2>1, <2>3 DEF TypeInv, GenerateTypeOK
  <2> QED BY <1>2, <2>2, <2>4 DEF TypeInv, GenerateTypeOK, Running, IsGo, NoFile
<1>8. CASE BindingsWritten
  <2>1. /\ cmd.pc = "bindings" /\ bindings' = bindings
        /\ \E pc \in {"clean", "done"} : \E clean : cmd' = [cmd EXCEPT !.pc = pc, !.clean = clean]
    BY <1>8 DEF BindingsWritten
  <2>2. /\ cmd'.pc \in {"clean", "done"} /\ cmd'.text = cmd.text /\ cmd'.seen = cmd.seen
    BY <1>1, <2>1 DEF Fields
  <2>3. ~IsGo(cmd.text) BY <2>1 DEF TypeInv, GenerateTypeOK
  <2> QED BY <1>2, <2>1, <2>2, <2>3 DEF TypeInv, GenerateTypeOK, Running, Resting
<1>9. CASE Clean
  <2>1. /\ cmd.pc = "clean"
        /\ \/ cmd' = [cmd EXCEPT !.pc = "done"] /\ bindings' = bindings
           \/ cmd' = cmd /\ \E f \in BindingFiles : bindings' = [bindings EXCEPT ![f] = NoFile]
    BY <1>9 DEF Clean
  <2>2. /\ cmd'.pc \in {"clean", "done"} /\ cmd'.text = cmd.text /\ cmd'.seen = cmd.seen
    BY <1>1, <2>1 DEF Fields
  <2>3. ~IsGo(cmd.text) BY <2>1 DEF TypeInv, GenerateTypeOK
  <2>4. /\ DOMAIN bindings' = BindingFiles
        /\ \A f \in BindingFiles : bindings'[f].state \in {"none", "torn", "go", "querier"}
    BY <2>1 DEF TypeInv, GenerateTypeOK, NoFile
  <2> QED BY <1>2, <2>2, <2>3, <2>4 DEF TypeInv, GenerateTypeOK, Running, Resting
<1> QED BY <1>3, <1>4, <1>5, <1>6, <1>7, <1>8, <1>9

LEMMA UserTyped == ASSUME TypeInv, OwnInv, OwnInv', User PROVE TypeInv'
<1>1. ASSUME NEW o \in ModelObjects, ChangeSchema(o) PROVE TypeInv'
  <2>1. PICK def \in Shapes[o] \cup {Absent} : schema' = [schema EXCEPT ![o] = def]
    BY <1>1 DEF ChangeSchema
  <2>2. UNCHANGED <<models, bindings>> /\ (cmd' = cmd \/ cmd' = NoCommand)
    BY <1>1 DEF ChangeSchema
  <2>3. /\ DOMAIN schema' = ModelObjects
        /\ \A x \in ModelObjects : schema'[x] \in Shapes[x] \cup {Absent}
    BY <2>1 DEF TypeInv, GenerateTypeOK
  <2>4. NoCommand.pc = "idle" /\ NoCommand.text = NoFile /\ NoCommand.extensions = <<>>
        /\ \A x \in ModelObjects : NoCommand.seen[x] = Absent
    BY DEF NoCommand
  <2> QED BY <2>2, <2>3, <2>4 DEF TypeInv, GenerateTypeOK, Resting, IsGo, NoFile
<1>2. ASSUME NEW f, NEW file, Save(f, file) PROVE TypeInv'
  <2>1. cmd' = NoCommand /\ UNCHANGED <<schema, bindings>> BY <1>2 DEF Save, Edited
  <2> QED BY <2>1, NoCommandTyped
<1>3. ASSUME NEW f, DeleteModel(f) \/ EditQueries PROVE TypeInv'
  <2>1. cmd' = NoCommand /\ UNCHANGED <<schema, bindings>>
    BY <1>3 DEF DeleteModel, EditQueries, Edited
  <2> QED BY <2>1, NoCommandTyped
<1>4. ASSUME NEW t \in Tables, Extend(t) \/ WithdrawField(t) \/ Retag(t) PROVE TypeInv'
  BY <1>2, <1>4 DEF Extend, WithdrawField, Retag
<1>5. ASSUME NEW f \in ModelFiles, Declare(f) PROVE TypeInv' BY <1>2, <1>5 DEF Declare
<1>6. ASSUME NEW o \in Enums, DeclareConsts(o) PROVE TypeInv' BY <1>2, <1>6 DEF DeclareConsts
<1> QED BY <1>1, <1>3, <1>4, <1>5, <1>6 DEF User

LEMMA StepTypes == ASSUME TypeInv, OwnInv, OwnInv', [Next]_vars PROVE TypeInv'
<1>1. CASE UNCHANGED vars BY <1>1 DEF vars, TypeInv, GenerateTypeOK
<1>2. CASE Command
  BY <1>2, StartTyped, SkipTyped, MergeTyped, WriteTyped, BindingsTyped DEF Command
<1>3. CASE Interrupt
  <2>1. cmd' = Failed /\ UNCHANGED <<schema, bindings>> BY <1>3 DEF Interrupt
  <2> QED BY <2>1, NoCommandTyped
<1>4. CASE User BY <1>4, UserTyped
<1> QED BY <1>1, <1>2, <1>3, <1>4 DEF Next
-----------------------------------------------------------------------------
(* The model files are those of their objects. *)

Fits(o) == Fitting(o, models[ModelFile[o]], cmd.seen[o])

FitInv ==
  /\ \A o \in ModelObjects :
       IsGo(models[ModelFile[o]]) => ObjectFile(o, models[ModelFile[o]])
  /\ cmd.pc = "writeModel" => Fitting(Head(cmd.todo), cmd.text, cmd.seen[Head(cmd.todo)])
  /\ cmd.pc \in {"models", "writeModel"} =>
       \A o \in Present(cmd.seen, ModelObjects \ Skipped) : o \in Elements(cmd.todo) \/ Fits(o)
  /\ cmd.pc \in {"introspect", "querier", "bindings", "writeBinding", "clean", "done"} =>
       \A o \in Present(cmd.seen, ModelObjects \ Skipped) : Fits(o)

LEMMA InitFits == Init => FitInv
<1> SUFFICES ASSUME Init PROVE FitInv OBVIOUS
<1>1. models = [f \in ModelFiles |-> NoFile] /\ cmd.pc = "idle" BY DEF Init, NoCommand
<1>2. \A o \in ModelObjects : ~IsGo(models[ModelFile[o]]) BY <1>1, ObjectFiles DEF IsGo, NoFile
<1> QED BY <1>1, <1>2 DEF FitInv

\* A step that leaves the models alone, and what the command has seen.
LEMMA RestFits ==
  ASSUME FitInv, models' = models, cmd'.pc \notin {"models", "writeModel"},
         cmd'.pc \in {"introspect", "querier", "bindings", "writeBinding", "clean", "done"} =>
           /\ cmd'.seen = cmd.seen
           /\ cmd.pc \in {"introspect", "querier", "bindings", "writeBinding", "clean", "done"}
  PROVE  FitInv'
<1>1. ASSUME cmd'.pc \in {"introspect", "querier", "bindings", "writeBinding", "clean", "done"},
             NEW o \in Present(cmd'.seen, ModelObjects \ Skipped)
      PROVE  Fits(o)'
  <2>1. o \in Present(cmd.seen, ModelObjects \ Skipped) BY <1>1
  <2>2. Fits(o) BY <1>1, <2>1 DEF FitInv
  <2> QED BY <1>1, <2>2 DEF Fits
<1> QED BY <1>1 DEF FitInv

LEMMA RestingFits == ASSUME FitInv, models' = models, cmd' \in {NoCommand, Failed} PROVE FitInv'
<1>1. cmd'.pc \in {"idle", "failed"} BY DEF NoCommand, Failed
<1> QED BY <1>1, RestFits

\* Everything in the database is listed first.
LEMMA StartFits == ASSUME FitInv, TypeInv, OwnInv, StartGenerate PROVE FitInv'
<1> DEFINE enums == Present(schema, Enums)
           comps == Present(schema, Composites)
           tabs  == Present(schema, Tables)
<1>1. PICK tables \in SetToSeqs(tabs) :
        cmd' = [NoCommand EXCEPT !.pc = "models", !.seen = schema, !.tables = tables,
                                 !.todo = SetToSeq(enums) \o SetToSeq(comps) \o tables]
  BY DEF StartGenerate
<1>2. models' = models BY DEF StartGenerate
<1>3. PICK todo, A, B, C : /\ todo = (SetToSeq(A) \o SetToSeq(B)) \o tables
                           /\ A = enums /\ B = comps /\ C = tabs OBVIOUS
<1>4. cmd'.pc = "models" /\ cmd'.seen = schema /\ cmd'.todo = todo
  BY <1>1, <1>3 DEF NoCommand
<1>5. A \subseteq ModelObjects /\ B \subseteq ModelObjects /\ C \subseteq ModelObjects
  BY <1>3 DEF Present, ModelObjects
<1>6. IsFiniteSet(A) /\ IsFiniteSet(B) /\ IsFiniteSet(C) BY <1>5, NamesAssumption, FS_Subset
<1>7. PICK a, b : a = SetToSeq(A) /\ b = SetToSeq(B) OBVIOUS
<1>8. a \in Seq(A) /\ Elements(a) = A /\ b \in Seq(B) /\ Elements(b) = B
  BY <1>6, <1>7, SetListed
<1>9. tables \in Seq(C) /\ Elements(tables) = C BY <1>1, <1>3, <1>6, SeqsListed
<1>10. Elements(todo) = (A \cup B) \cup C
  <2>1. a \in Seq(ModelObjects) /\ b \in Seq(ModelObjects) /\ tables \in Seq(ModelObjects)
    BY <1>5, <1>8, <1>9
  <2>2. Elements(a \o b) = A \cup B BY <1>8, <2>1, BothElements
  <2>3. PICK ab : ab = a \o b OBVIOUS
  <2>4. ab \in Seq(ModelObjects) /\ Elements(ab) = A \cup B BY <2>1, <2>2, <2>3
  <2>5. Elements(ab \o tables) = (A \cup B) \cup C BY <1>9, <2>1, <2>4, BothElements
  <2> QED BY <1>3, <1>7, <2>3, <2>5
<1>11. Present(schema, ModelObjects \ Skipped) \subseteq (A \cup B) \cup C
  BY <1>3 DEF Present, ModelObjects
<1> QED BY <1>2, <1>4, <1>10, <1>11 DEF FitInv

LEMMA MergeFits ==
  ASSUME TablesApart, FitInv, TypeInv, OwnInv, MergeModel PROVE FitInv'
<1> DEFINE o == Head(cmd.todo)
           f == ModelFile[o]
<1>1. CASE models[f] = Torn
  <2>1. cmd' = Failed /\ models' = models BY <1>1 DEF MergeModel
  <2> QED BY <2>1, RestingFits
<1>2. CASE models[f] # Torn
  <2>1. PICK text : /\ text = Modelled(o, models[f], cmd.seen[o])
                    /\ cmd' = [cmd EXCEPT !.pc = "writeModel", !.text = text]
    BY <1>2 DEF MergeModel
  <2>2. models' = [models EXCEPT ![f] = Torn] /\ cmd.pc = "models" /\ cmd.todo # <<>>
    BY <1>2 DEF MergeModel
  <2>3. DOMAIN cmd = Fields BY DEF OwnInv, CommandInv, Fields
  <2>4. /\ cmd'.pc = "writeModel" /\ cmd'.text = text /\ cmd'.todo = cmd.todo
        /\ cmd'.seen = cmd.seen
    BY <2>1, <2>3 DEF Fields
  <2>5. cmd.todo \in Seq(ModelObjects) /\ o \in ModelObjects /\ o \in Range(cmd.todo)
    <3>1. PICK todo : todo = cmd.todo OBVIOUS
    <3>2. todo \in Seq(ModelObjects) /\ todo # <<>> BY <2>2, <3>1 DEF OwnInv, CommandInv
    <3>3. 1 \in DOMAIN todo /\ Head(todo) = todo[1] BY <3>2
    <3> QED BY <3>1, <3>2, <3>3 DEF Range
  <2>6. cmd.seen[o] \in Shapes[o]
    BY <2>2, <2>5 DEF TypeInv, GenerateTypeOK
  <2>7. Fitting(o, text, cmd.seen[o])
    <3>1. CASE models[f] = NoFile BY <2>1, <2>5, <2>6, <3>1, NewModelFits DEF Modelled
    <3>2. CASE models[f] # NoFile
      <4>1. IsGo(models[f]) BY <1>2, <2>5, <3>2, ObjectFiles DEF OwnInv, FilesInv, IsFile
      <4>2. ObjectFile(o, models[f]) BY <2>5, <4>1 DEF FitInv
      <4> QED BY <2>1, <2>5, <2>6, <3>2, <4>2, MergedModelFits DEF Modelled
    <3> QED BY <3>1, <3>2
  <2>8. DOMAIN models = ModelFiles /\ f \in ModelFiles BY <2>5, ObjectFiles DEF OwnInv, FilesInv
  <2>9. models'[f] = Torn /\ \A p \in ModelObjects \ {o} : models'[ModelFile[p]] = models[ModelFile[p]]
    BY <2>2, <2>5, <2>8, OwnFile
  <2>10. \A p \in ModelObjects : IsGo(models'[ModelFile[p]]) => ObjectFile(p, models'[ModelFile[p]])
    BY <2>9 DEF FitInv, IsGo, Torn
  <2>11. ASSUME NEW p \in Present(cmd.seen, ModelObjects \ Skipped), p \notin Elements(cmd.todo)
         PROVE  Fits(p)'
    <3>1. p \in ModelObjects BY DEF Present
    <3>2. p # o
      <4>1. PICK todo : todo = cmd.todo OBVIOUS
      <4>2. todo \in Seq(ModelObjects) /\ todo # <<>> BY <2>2, <2>5, <4>1
      <4>3. 1 \in 1..Len(todo) /\ Head(todo) = todo[1] BY <4>2
      <4> QED BY <2>11, <4>1, <4>3 DEF Elements
    <3>3. Fits(p) BY <2>2, <2>11 DEF FitInv
    <3> QED BY <2>4, <2>9, <3>1, <3>2, <3>3 DEF Fits
  <2> QED BY <2>4, <2>7, <2>10, <2>11 DEF FitInv
<1> QED BY <1>1, <1>2

\* The first object of the list and the others.
LEMMA ListOf ==
  ASSUME NEW todo \in Seq(ModelObjects), todo # <<>>
  PROVE  Head(todo) \in ModelObjects /\ Elements(todo) = {Head(todo)} \cup Elements(Tail(todo))
<1>3. PICK n \in Nat \ {0} : n = Len(todo) OBVIOUS
<1>4. Head(todo) = todo[1] /\ Head(todo) \in ModelObjects OBVIOUS
<1>5. PICK rest : rest = Tail(todo) OBVIOUS
<1>6. Len(rest) = n - 1 /\ \A i \in 1..(n - 1) : rest[i] = todo[i + 1] BY <1>3, <1>5
<1>7. Elements(rest) = {todo[i + 1] : i \in 1..(n - 1)} BY <1>6 DEF Elements
<1>8. Elements(todo) = {todo[i] : i \in 1..n} BY <1>3 DEF Elements
<1>9. \A i \in 2..n : i - 1 \in 1..(n - 1) /\ (i - 1) + 1 = i BY <1>3
<1>10. \A i \in 1..(n - 1) : i + 1 \in 1..n BY <1>3
<1>11. 1..n = {1} \cup 2..n BY <1>3
<1>12. {todo[i] : i \in 1..n} = {todo[1]} \cup {todo[i + 1] : i \in 1..(n - 1)}
  BY <1>9, <1>10, <1>11
<1> QED BY <1>4, <1>5, <1>7, <1>8, <1>12

LEMMA SkipFits == ASSUME FitInv, TypeInv, OwnInv, SkipTable PROVE FitInv'
<1>1. /\ cmd.pc = "models" /\ cmd.todo # <<>> /\ Head(cmd.todo) \in Skipped /\ models' = models
      /\ cmd' = [cmd EXCEPT !.todo = Tail(@)]
  BY DEF SkipTable
<1>2. DOMAIN cmd = Fields BY DEF OwnInv, CommandInv, Fields
<1>3. cmd'.pc = "models" /\ cmd'.todo = Tail(cmd.todo) /\ cmd'.seen = cmd.seen
  BY <1>1, <1>2 DEF Fields
<1>4. cmd.todo \in Seq(ModelObjects) BY <1>1 DEF OwnInv, CommandInv
<1>5. Elements(cmd.todo) = {Head(cmd.todo)} \cup Elements(Tail(cmd.todo)) BY <1>1, <1>4, ListOf
<1>6. ASSUME NEW o \in Present(cmd.seen, ModelObjects \ Skipped), o \notin Elements(Tail(cmd.todo))
      PROVE  Fits(o)'
  <2>1. o # Head(cmd.todo) BY <1>1 DEF Present
  <2>2. Fits(o) BY <1>1, <1>5, <1>6, <2>1 DEF FitInv
  <2> QED BY <1>1, <1>3, <2>2 DEF Fits
<1> QED BY <1>1, <1>3, <1>6 DEF FitInv

LEMMA WriteFits == ASSUME FitInv, TypeInv, OwnInv, WriteModel PROVE FitInv'
<1> DEFINE o == Head(cmd.todo)
           f == ModelFile[o]
<1>1. /\ cmd.pc = "writeModel"
      /\ models' = [models EXCEPT ![f] = cmd.text]
      /\ cmd' = [cmd EXCEPT !.pc = "models", !.todo = Tail(@), !.text = NoFile]
  BY DEF WriteModel
<1>2. DOMAIN cmd = Fields BY DEF OwnInv, CommandInv, Fields
<1>3. cmd'.pc = "models" /\ cmd'.todo = Tail(cmd.todo) /\ cmd'.seen = cmd.seen
  BY <1>1, <1>2 DEF Fields
<1>4. cmd.todo \in Seq(ModelObjects) /\ cmd.todo # <<>> BY <1>1 DEF OwnInv, CommandInv
<1>5. o \in ModelObjects /\ Elements(cmd.todo) = {o} \cup Elements(Tail(cmd.todo)) BY <1>4, ListOf
<1>6. DOMAIN models = ModelFiles /\ f \in ModelFiles BY <1>5, ObjectFiles DEF OwnInv, FilesInv
<1>7. /\ models'[f] = cmd.text
      /\ \A p \in ModelObjects \ {o} : models'[ModelFile[p]] = models[ModelFile[p]]
  BY <1>1, <1>5, <1>6, OwnFile
<1>8. Fitting(o, models'[f], cmd.seen[o]) BY <1>1, <1>7 DEF FitInv
<1>9. \A p \in ModelObjects : IsGo(models'[ModelFile[p]]) => ObjectFile(p, models'[ModelFile[p]])
  <2>1. ObjectFile(o, models'[f]) BY <1>8 DEF Fitting
  <2>2. ASSUME NEW p \in ModelObjects, IsGo(models'[ModelFile[p]])
        PROVE  ObjectFile(p, models'[ModelFile[p]])
    <3>1. CASE p = o BY <2>1, <3>1
    <3>2. CASE p # o BY <1>7, <2>2, <3>2 DEF FitInv
    <3> QED BY <3>1, <3>2
  <2> QED BY <2>2
<1>10. ASSUME NEW p \in Present(cmd.seen, ModelObjects \ Skipped), p \notin Elements(Tail(cmd.todo))
       PROVE  Fits(p)'
  <2>1. p \in ModelObjects BY DEF Present
  <2>2. CASE p = o BY <1>3, <1>8, <2>2 DEF Fits
  <2>3. CASE p # o
    <3>1. Fits(p) BY <1>1, <1>5, <1>10, <2>3 DEF FitInv
    <3> QED BY <1>3, <1>7, <2>1, <2>3, <3>1 DEF Fits
  <2> QED BY <2>2, <2>3
<1> QED BY <1>3, <1>9, <1>10 DEF FitInv

LEMMA BindingsFit ==
  ASSUME FitInv, TypeInv, OwnInv,
         ReadQueries \/ IntrospectQueries \/ WriteQuerier \/ OpenBinding \/ WriteBinding
           \/ BindingsWritten \/ Clean
  PROVE  FitInv'
<1> DEFINE Later == {"introspect", "querier", "bindings", "writeBinding", "clean", "done"}
<1>1. DOMAIN cmd = Fields BY DEF OwnInv, CommandInv, Fields
<1>2. models' = models
  BY DEF ReadQueries, IntrospectQueries, WriteQuerier, OpenBinding, WriteBinding, BindingsWritten, Clean
<1>3. CASE ReadQueries
  <2>1. /\ cmd.pc = "models" /\ cmd.todo = <<>>
        /\ \/ \E clean : cmd' = [cmd EXCEPT !.pc = "done", !.clean = clean]
           \/ \E queries : cmd' = [cmd EXCEPT !.pc = "introspect", !.queries = queries]
    BY <1>3, Zenon DEF ReadQueries
  <2>2. cmd'.pc \in {"done", "introspect"} /\ cmd'.seen = cmd.seen BY <1>1, <2>1 DEF Fields
  <2>3. Elements(<<>>) = {} BY DEF Elements
  <2>4. ASSUME NEW o \in Present(cmd.seen, ModelObjects \ Skipped) PROVE Fits(o)'
    <3>1. Fits(o) BY <2>1, <2>3 DEF FitInv
    <3> QED BY <1>2, <2>2, <3>1 DEF Fits
  <2> QED BY <1>2, <2>2, <2>4 DEF FitInv
<1>4. CASE IntrospectQueries
  <2>1. /\ cmd.pc = "introspect"
        /\ \/ \E queries : cmd' = [cmd EXCEPT !.pc = "querier", !.queries = queries]
           \/ cmd' = Failed
    BY <1>4, Zenon DEF IntrospectQueries
  <2>2. CASE cmd' = Failed BY <1>2, <2>2, RestingFits
  <2>3. CASE \E queries : cmd' = [cmd EXCEPT !.pc = "querier", !.queries = queries]
    <3>1. cmd'.pc = "querier" /\ cmd'.seen = cmd.seen BY <1>1, <2>3 DEF Fields
    <3> QED BY <1>2, <2>1, <3>1, RestFits
  <2> QED BY <2>1, <2>2, <2>3
<1>5. CASE WriteQuerier \/ OpenBinding \/ WriteBinding \/ BindingsWritten \/ Clean
  <2>1. cmd.pc \in Later /\ cmd'.pc \in Later /\ cmd'.seen = cmd.seen
    <3>1. CASE WriteQuerier BY <1>1, <3>1 DEF WriteQuerier, Fields
    <3>2. CASE OpenBinding
      <4>1. cmd.pc = "bindings" /\ \E text : cmd' = [cmd EXCEPT !.pc = "writeBinding", !.text = text]
        BY <3>2 DEF OpenBinding
      <4> QED BY <1>1, <4>1 DEF Fields
    <3>3. CASE WriteBinding
      <4>1. /\ cmd.pc = "writeBinding"
            /\ \E todo : cmd' = [cmd EXCEPT !.pc = "bindings", !.todo = todo, !.text = NoFile]
        BY <3>3, Zenon DEF WriteBinding
      <4> QED BY <1>1, <4>1 DEF Fields
    <3>4. CASE BindingsWritten BY <1>1, <3>4 DEF BindingsWritten, Fields
    <3>5. CASE Clean BY <1>1, <3>5 DEF Clean, Fields
    <3> QED BY <1>5, <3>1, <3>2, <3>3, <3>4, <3>5
  <2> QED BY <1>2, <2>1, RestFits
<1> QED BY <1>3, <1>4, <1>5

\* A user's edit of one file.
LEMMA SaveFits ==
  ASSUME FitInv, OwnInv, NEW o \in ModelObjects, NEW file, Save(ModelFile[o], file),
         ObjectFile(o, models[ModelFile[o]]),
         file = GoFile(file.main, file.ext, file.consts, file.imports, file.own),
         o \in Enums /\ BlocksApart => OneBlock(file.consts),
         o \notin Enums => file.consts = <<>>
  PROVE  FitInv'
<1>1. PICK f, saved : f = ModelFile[o] /\ saved = [file EXCEPT !.imports = UsedPackages(file)] OBVIOUS
<1>2. models' = [models EXCEPT ![f] = saved] /\ cmd' = NoCommand BY <1>1 DEF Save, Edited
<1>3. saved = GoFile(file.main, file.ext, file.consts, UsedPackages(file), file.own)
  <2>1. PICK main, ext, consts, imports, own :
          /\ file = GoFile(main, ext, consts, imports, own) /\ main = file.main /\ ext = file.ext
          /\ consts = file.consts /\ own = file.own
    OBVIOUS
  <2>2. PICK used : used = UsedPackages(file) OBVIOUS
  <2>3. saved = [file EXCEPT !.imports = used] BY <1>1, <2>2
  <2>4. saved = GoFile(main, ext, consts, used, own) BY <2>1, <2>3 DEF GoFile
  <2> QED BY <2>1, <2>2, <2>4
<1>4. /\ saved.main = file.main /\ saved.ext = file.ext /\ saved.consts = file.consts
      /\ saved.own = file.own /\ saved.imports = UsedPackages(file)
      /\ saved = GoFile(saved.main, saved.ext, saved.consts, saved.imports, saved.own)
  BY <1>3, GoFileIs
<1>5. Needed(saved) \subseteq saved.imports
  <2>1. PICK N : N = UNION {Names(g.type) : g \in Range(file.main)} OBVIOUS
  <2>2. UsedPackages(file) = N \cup Needed(file) BY <2>1, UsedIs
  <2>3. Needed(saved) = Needed(file) BY <1>4 DEF Needed
  <2> QED BY <1>4, <2>2, <2>3
<1>6. ObjectFile(o, saved) BY <1>4, <1>5 DEF ObjectFile
<1>7. \A p \in ModelObjects : IsGo(models'[ModelFile[p]]) => ObjectFile(p, models'[ModelFile[p]])
  <2>1. DOMAIN models = ModelFiles BY DEF OwnInv, FilesInv
  <2>2. models'[f] = saved /\ \A p \in ModelObjects \ {o} : models'[ModelFile[p]] = models[ModelFile[p]]
    BY <1>1, <1>2, <2>1, ObjectFiles, OwnFile
  <2>3. ASSUME NEW p \in ModelObjects, IsGo(models'[ModelFile[p]])
        PROVE  ObjectFile(p, models'[ModelFile[p]])
    <3>1. CASE p = o BY <1>1, <1>6, <2>2, <3>1
    <3>2. CASE p # o BY <2>2, <2>3, <3>2 DEF FitInv
    <3> QED BY <3>1, <3>2
  <2> QED BY <2>3
<1>8. cmd'.pc = "idle" BY <1>2 DEF NoCommand
<1> QED BY <1>7, <1>8 DEF FitInv

\* A user's block, above or below, is not the enum's.
LEMMA BlockAdded ==
  ASSUME NEW old, OneBlock(old), NEW block, Range(block) \cap TypeNamed = {},
         NEW new \in {<<block>> \o old, Append(old, block)}
  PROVE  OneBlock(new)
<1>1. PICK k \in DOMAIN old : NamedBlocks(old) = {k} BY DEF OneBlock
<1>2. old \in Seq(Range(old)) BY DEF OneBlock
<1>3. PICK n \in Nat : n = Len(old) /\ DOMAIN old = 1..n BY <1>2
<1>4. PICK S : S = Range(old) \cup {block} OBVIOUS
<1>5. old \in Seq(S) /\ <<block>> \in Seq(S) BY <1>2, <1>4
<1>6. \A i \in 1..n : Range(old[i]) \cap TypeNamed # {} <=> i = k
  BY <1>1, <1>3 DEF NamedBlocks
<1>7. CASE new = <<block>> \o old
  <2>1. /\ new \in Seq(S) /\ DOMAIN new = 1..(n + 1) /\ new[1] = block
        /\ \A i \in 1..n : new[i + 1] = old[i]
    BY <1>3, <1>5, <1>7
  <2>2. new \in Seq(Range(new))
    <3>1. new \in [1..(n + 1) -> Range(new)] BY <2>1 DEF Range
    <3> QED BY <3>1
  <2>3. \A j \in 2..(n + 1) : j - 1 \in 1..n /\ new[j] = old[j - 1] BY <2>1
  <2>4. \A j \in 1..(n + 1) : Range(new[j]) \cap TypeNamed # {} <=> j = k + 1
    <3>1. SUFFICES ASSUME NEW j \in 1..(n + 1)
                   PROVE  Range(new[j]) \cap TypeNamed # {} <=> j = k + 1 OBVIOUS
    <3>2. CASE j = 1 BY <1>3, <2>1, <3>2
    <3>3. CASE j \in 2..(n + 1) BY <1>3, <1>6, <2>3, <3>3
    <3> QED BY <3>2, <3>3
  <2>5. k + 1 \in DOMAIN new /\ NamedBlocks(new) = {k + 1}
    BY <1>3, <2>1, <2>4 DEF NamedBlocks
  <2> QED BY <2>2, <2>5 DEF OneBlock
<1>8. CASE new = Append(old, block)
  <2>1. /\ new \in Seq(S) /\ DOMAIN new = 1..(n + 1) /\ new[n + 1] = block
        /\ \A i \in 1..n : new[i] = old[i]
    BY <1>3, <1>5, <1>8
  <2>2. new \in Seq(Range(new))
    <3>1. new \in [1..(n + 1) -> Range(new)] BY <2>1 DEF Range
    <3> QED BY <3>1
  <2>4. \A j \in 1..(n + 1) : Range(new[j]) \cap TypeNamed # {} <=> j = k
    <3>1. SUFFICES ASSUME NEW j \in 1..(n + 1)
                   PROVE  Range(new[j]) \cap TypeNamed # {} <=> j = k OBVIOUS
    <3>2. CASE j = n + 1 BY <1>3, <2>1, <3>2
    <3>3. CASE j \in 1..n BY <1>6, <2>1, <3>3
    <3> QED BY <3>2, <3>3
  <2>5. k \in DOMAIN new /\ NamedBlocks(new) = {k}
    BY <1>3, <2>1, <2>4 DEF NamedBlocks
  <2> QED BY <2>2, <2>5 DEF OneBlock
<1> QED BY <1>7, <1>8

LEMMA UserFits == ASSUME FitInv, TypeInv, OwnInv, User PROVE FitInv'
<1>1. ASSUME EditQueries \/ \E o \in ModelObjects : ChangeSchema(o) PROVE FitInv'
  <2>1. models' = models /\ (cmd' = cmd \/ cmd' = NoCommand)
    BY <1>1 DEF EditQueries, ChangeSchema, Edited
  <2>2. CASE cmd' = cmd BY <2>1, <2>2 DEF FitInv, Fits
  <2>3. CASE cmd' = NoCommand BY <2>1, <2>3, RestingFits
  <2> QED BY <2>1, <2>2, <2>3
<1>2. ASSUME NEW f \in ModelFiles, DeleteModel(f) PROVE FitInv'
  <2>1. models' = [models EXCEPT ![f] = NoFile] /\ cmd' = NoCommand
    BY <1>2 DEF DeleteModel, Edited
  <2>2. DOMAIN models = ModelFiles BY DEF OwnInv, FilesInv
  <2>3. \A o \in ModelObjects : IsGo(models'[ModelFile[o]]) => ObjectFile(o, models'[ModelFile[o]])
    BY <2>1, <2>2, ObjectFiles DEF FitInv, IsGo, NoFile
  <2>4. cmd'.pc = "idle" BY <2>1 DEF NoCommand
  <2> QED BY <2>3, <2>4 DEF FitInv
<1>3. ASSUME NEW o \in ModelObjects, IsGo(models[ModelFile[o]]), NEW file,
             Save(ModelFile[o], file),
             \/ \E ext : file = [models[ModelFile[o]] EXCEPT !.ext = ext]
             \/ \E main : file = [models[ModelFile[o]] EXCEPT !.main = main]
             \/ \E own : file = [models[ModelFile[o]] EXCEPT !.own = own]
      PROVE  FitInv'
  <2>1. ObjectFile(o, models[ModelFile[o]]) BY <1>3 DEF FitInv
  <2>2. PICK old : old = models[ModelFile[o]] OBVIOUS
  <2>3. PICK main, ext, consts, imports, own : old = GoFile(main, ext, consts, imports, own)
    BY <2>1, <2>2 DEF ObjectFile
  <2>4. \E m, e, w : file = GoFile(m, e, consts, imports, w) BY <1>3, <2>2, <2>3 DEF GoFile
  <2>5. PICK m, e, w : file = GoFile(m, e, consts, imports, w) BY <2>4
  <2>6. /\ file = GoFile(file.main, file.ext, file.consts, file.imports, file.own)
        /\ file.consts = consts
    BY <2>5, GoFileIs
  <2>7. old.consts = consts BY <2>3, GoFileIs
  <2>8. /\ o \in Enums /\ BlocksApart => OneBlock(file.consts)
        /\ o \notin Enums => file.consts = <<>>
    BY <2>1, <2>2, <2>6, <2>7 DEF ObjectFile
  <2> QED BY <1>3, <2>1, <2>6, <2>8, SaveFits
<1>4. ASSUME NEW t \in Tables, Extend(t) \/ WithdrawField(t) \/ Retag(t) PROVE FitInv'
  <2>1. t \in ModelObjects BY DEF ModelObjects
  <2>2. CASE Extend(t)
    <3>1. \E ext : IsGo(models[ModelFile[t]]) /\ Save(ModelFile[t], [models[ModelFile[t]] EXCEPT !.ext = ext])
      BY <2>2 DEF Extend
    <3> QED BY <1>3, <2>1, <3>1
  <2>3. CASE WithdrawField(t)
    <3>1. \E ext : IsGo(models[ModelFile[t]]) /\ Save(ModelFile[t], [models[ModelFile[t]] EXCEPT !.ext = ext])
      BY <2>3 DEF WithdrawField
    <3> QED BY <1>3, <2>1, <3>1
  <2>4. CASE Retag(t)
    <3>1. \E main : IsGo(models[ModelFile[t]]) /\ Save(ModelFile[t], [models[ModelFile[t]] EXCEPT !.main = main])
      BY <2>4, Zenon DEF Retag
    <3> QED BY <1>3, <2>1, <3>1
  <2> QED BY <1>4, <2>2, <2>3, <2>4
<1>5. ASSUME NEW f \in ModelFiles, Declare(f) PROVE FitInv'
  <2>1. PICK o \in ModelObjects : f = ModelFile[o] BY NamesAssumption DEF ModelFiles, Range
  <2>2. \E own : IsGo(models[f]) /\ Save(f, [models[f] EXCEPT !.own = own])
    BY <1>5, Zenon DEF Declare
  <2> QED BY <1>3, <2>1, <2>2
<1>6. ASSUME NEW o \in Enums, DeclareConsts(o) PROVE FitInv'
  <2>1. PICK old : o \in ModelObjects /\ old = models[ModelFile[o]] BY DEF ModelObjects
  <2>2. PICK block, consts :
          /\ block \in OwnBlocks
          /\ consts \in {<<block>> \o old.consts, Append(old.consts, block)}
          /\ IsGo(old) /\ Save(ModelFile[o], [old EXCEPT !.consts = consts])
    BY <1>6, <2>1 DEF DeclareConsts
  <2>3. ObjectFile(o, old) BY <2>1, <2>2 DEF FitInv
  <2>4. PICK file : file = [old EXCEPT !.consts = consts] OBVIOUS
  <2>5. PICK main, ext, was, imports, own : /\ old = GoFile(main, ext, was, imports, own)
                                           /\ old.consts = was
    BY <2>3, GoFileIs DEF ObjectFile
  <2>6. file = GoFile(main, ext, consts, imports, own) BY <2>4, <2>5 DEF GoFile
  <2>7. /\ file = GoFile(file.main, file.ext, file.consts, file.imports, file.own)
        /\ file.consts = consts
    BY <2>6, GoFileIs
  <2>8. BlocksApart => OneBlock(consts)
    <3>1. SUFFICES ASSUME BlocksApart PROVE OneBlock(consts) OBVIOUS
    <3>2. OneBlock(was) BY <2>3, <2>5, <3>1 DEF ObjectFile
    <3>3. Range(block) \cap TypeNamed = {} BY <2>2, <3>1 DEF BlocksApart
    <3> QED BY <2>2, <2>5, <3>2, <3>3, BlockAdded
  <2> QED BY <2>1, <2>2, <2>3, <2>4, <2>7, <2>8, SaveFits
<1> QED BY <1>1, <1>2, <1>4, <1>5, <1>6 DEF User

LEMMA StepFits == ASSUME TablesApart, FitInv, TypeInv, OwnInv, [Next]_vars PROVE FitInv'
<1>1. CASE UNCHANGED vars BY <1>1 DEF vars, FitInv, Fits
<1>2. CASE Command
  BY <1>2, StartFits, SkipFits, MergeFits, WriteFits, BindingsFit DEF Command
<1>3. CASE Interrupt
  <2>1. cmd' = Failed /\ models' = models BY <1>3 DEF Interrupt
  <2> QED BY <2>1, RestingFits
<1>4. CASE User BY <1>4, UserFits
<1> QED BY <1>1, <1>2, <1>3, <1>4 DEF Next
-----------------------------------------------------------------------------
(* What it makes of a finished run.                                        *)

ModelInv == OwnInv /\ TypeInv /\ FitInv

\* At every step of the command, and after every kill and every edit, the files are
\* absent, torn or Go files, the schema is one of Shapes and what the run remembers of
\* both is of their types (generate.go).
THEOREM GenerateTypes == Spec => []GenerateTypeOK
<1>1. Init => OwnInv /\ TypeInv BY InitOwn, InitTypes
<1>2. OwnInv /\ TypeInv /\ [Next]_vars => (OwnInv /\ TypeInv)' BY StepOwn, StepTypes
<1>3. OwnInv /\ TypeInv => GenerateTypeOK BY DEF TypeInv
<1> QED BY <1>1, <1>2, <1>3, PTL DEF Spec

LEMMA ModelsHold == ASSUME TablesApart PROVE Spec => []ModelInv
<1>1. Init => ModelInv BY InitOwn, InitTypes, InitFits DEF ModelInv
<1>2. ModelInv /\ [Next]_vars => ModelInv' BY StepOwn, StepTypes, StepFits DEF ModelInv
<1> QED BY <1>1, <1>2, PTL DEF Spec

LEMMA DoneFits ==
  ASSUME ModelInv, Done, NEW o \in Present(cmd.seen, ModelObjects \ Skipped)
  PROVE  /\ Fitting(o, models[ModelFile[o]], cmd.seen[o])
         /\ IsFile(models[ModelFile[o]])
         /\ o \in ModelObjects /\ cmd.seen[o] \in Shapes[o]
<1>1. Fitting(o, models[ModelFile[o]], cmd.seen[o]) BY DEF ModelInv, Done, FitInv, Fits
<1>2. IsFile(models[ModelFile[o]]) BY <1>1, GoFileIs DEF Fitting, ObjectFile
<1>3. o \in ModelObjects /\ cmd.seen[o] \in Shapes[o] BY DEF Present, ModelInv, TypeInv
<1> QED BY <1>1, <1>2, <1>3

\* The tables' part of it needs nothing of the user's constants.
TablesMatch ==
  Done => \A t \in Present(cmd.seen, Tables \ Skipped) :
    LET file == models[ModelFile[t]] IN
    /\ IsGo(file)
    /\ \A c \in Range(cmd.seen[t]) :
         PascalCase[c.name] \in FieldNames(file.main) \cup FieldNames(file.ext)

\* What ModelsMatchSchema says of an enum's and of a table's file.
EnumMatches(file, def) ==
  \E k \in DOMAIN file.consts : NamedBlocks(file.consts) = {k} /\ file.consts[k] = def
StructMatches(file, def) ==
  /\ FieldNames(file.main) \cap FieldNames(file.ext) = {}
  /\ Len(file.main) = Cardinality(FieldNames(file.main))
  /\ \A c \in Range(def) : \/ PascalCase[c.name] \in FieldNames(file.ext)
                           \/ \E f \in Range(file.main) :
                                /\ f.name = PascalCase[c.name]
                                /\ f.type = PgTypeToGo(c.type, c.nullable)
  /\ FieldNames(file.main) \subseteq {PascalCase[c.name] : c \in Range(def)}

LEMMA ObjectMatches ==
  ASSUME TablesApart, ModelInv, Done, NEW o \in Present(cmd.seen, ModelObjects \ Skipped),
         NEW file, NEW def, file = models[ModelFile[o]], def = cmd.seen[o]
  PROVE  /\ IsGo(file)
         /\ o \in Enums /\ BlocksApart => EnumMatches(file, def)
         /\ o \in Composites => file.main = StructFields(def)
         /\ o \in Tables => StructMatches(file, def)
<1>1. Fitting(o, file, def) /\ IsFile(file) /\ o \in ModelObjects /\ def \in Shapes[o]
  BY DoneFits
<1>2. ASSUME o \in Enums, BlocksApart
      PROVE  \E k \in DOMAIN file.consts : NamedBlocks(file.consts) = {k} /\ file.consts[k] = def
  <2>1. OneBlockIs(file.consts, def) BY <1>1, <1>2 DEF Fitting
  <2> QED BY <2>1 DEF OneBlockIs
<1>3. o \in Composites => file.main = StructFields(def) BY <1>1 DEF Fitting
<1>4. ASSUME o \in Tables
      PROVE  /\ FieldNames(file.main) \cap FieldNames(file.ext) = {}
             /\ Len(file.main) = Cardinality(FieldNames(file.main))
             /\ \A c \in Range(def) : \/ PascalCase[c.name] \in FieldNames(file.ext)
                                      \/ \E f \in Range(file.main) :
                                           /\ f.name = PascalCase[c.name]
                                           /\ f.type = PgTypeToGo(c.type, c.nullable)
             /\ FieldNames(file.main) \subseteq {PascalCase[c.name] : c \in Range(def)}
  <2>1. def \in Seq(Columns) /\ FieldsApart(def) BY <1>1, <1>4, ShapesAssumption DEF TablesApart
  <2>2. PICK main : main = file.main OBVIOUS
  <2>3. main = TableMain(file, def) BY <1>1, <1>4, <2>2 DEF Fitting
  <2>4. PICK n \in Nat : DOMAIN main = 1..n /\ Len(main) = n BY <2>1, <2>3, TableMainIs
  <2>a. MainFields(main, def, file.ext) /\ MainCovers(main, def, file.ext) BY <2>1, <2>3, TableMainIs
  <2>5. \A i \in 1..n :
          /\ main[i].name \notin FieldNames(file.ext)
          /\ \E k \in DOMAIN def :
               /\ main[i].name = PascalCase[def[k].name]
               /\ main[i].type = PgTypeToGo(def[k].type, def[k].nullable)
    BY <2>a, <2>4 DEF MainFields
  <2>6. \A k \in DOMAIN def :
          \/ PascalCase[def[k].name] \in FieldNames(file.ext)
          \/ \E i \in 1..n :
               /\ main[i].name = PascalCase[def[k].name]
               /\ main[i].type = PgTypeToGo(def[k].type, def[k].nullable)
    <3>1. \A k \in DOMAIN def :
            \/ PascalCase[def[k].name] \in FieldNames(file.ext)
            \/ \E i \in DOMAIN main :
                 /\ main[i].name = PascalCase[def[k].name]
                 /\ main[i].type = PgTypeToGo(def[k].type, def[k].nullable)
      BY <2>a DEF MainCovers
    <3> QED BY <2>4, <3>1
  <2>7. \A i, j \in 1..n : main[i].name = main[j].name => i = j
    <3>1. \A i, j \in DOMAIN main : main[i].name = main[j].name => i = j
      BY <2>1, <2>3, TableMainIs
    <3> QED BY <2>4, <3>1
  <2>8. Range(main) = {main[i] : i \in 1..n} BY <2>4 DEF Range
  <2>9. PICK names : names = FieldNames(main) OBVIOUS
  <2>10. names = {main[i].name : i \in 1..n} BY <2>8, <2>9 DEF FieldNames
  <2>11. Cardinality(names) = n
    <3>1. PICK g : g = [i \in 1..n |-> main[i].name] OBVIOUS
    <3>2. g \in Bijection(1..n, names)
      <4>1. g \in [1..n -> names] BY <2>10, <3>1
      <4>2. IsInjective(g) BY <2>7, <3>1 DEF IsInjective
      <4>3. \A x \in names : \E i \in 1..n : g[i] = x BY <2>10, <3>1
      <4> QED BY <4>1, <4>2, <4>3 DEF Bijection, Injection, Surjection
    <3>3. IsFiniteSet(1..n) /\ Cardinality(1..n) = n BY FS_Interval
    <3> QED BY <3>2, <3>3, FS_Bijection DEF ExistsBijection
  <2>12. Range(def) = {def[k] : k \in DOMAIN def} BY DEF Range
  <2>13. names \cap FieldNames(file.ext) = {} BY <2>5, <2>10
  <2>14. names \subseteq {PascalCase[c.name] : c \in Range(def)}
    <3>1. SUFFICES ASSUME NEW i \in 1..n PROVE main[i].name \in {PascalCase[c.name] : c \in Range(def)}
      BY <2>10
    <3>2. PICK k \in DOMAIN def : main[i].name = PascalCase[def[k].name] BY <2>5
    <3> QED BY <2>12, <3>2
  <2>15. ASSUME NEW c \in Range(def), PascalCase[c.name] \notin FieldNames(file.ext)
         PROVE  \E f \in Range(main) : /\ f.name = PascalCase[c.name]
                                       /\ f.type = PgTypeToGo(c.type, c.nullable)
    <3>1. PICK k \in DOMAIN def : c = def[k] BY <2>12
    <3>2. PICK i \in 1..n : /\ main[i].name = PascalCase[def[k].name]
                            /\ main[i].type = PgTypeToGo(def[k].type, def[k].nullable)
      BY <2>6, <2>15, <3>1
    <3> QED BY <2>8, <3>1, <3>2
  <2> QED BY <2>2, <2>4, <2>9, <2>11, <2>13, <2>14, <2>15
<1> QED BY <1>1, <1>2, <1>3, <1>4 DEF IsFile, EnumMatches, StructMatches

LEMMA FittingMatches ==
  ASSUME TablesApart, ModelInv PROVE (BlocksApart => ModelsMatchSchema) /\ TablesMatch
<1>1. ASSUME BlocksApart, Done, NEW o \in Present(cmd.seen, ModelObjects \ Skipped),
             NEW file, NEW def, file = models[ModelFile[o]], def = cmd.seen[o]
      PROVE  /\ IsGo(file)
             /\ o \in Enums => EnumMatches(file, def)
             /\ o \in Composites => file.main = StructFields(def)
             /\ o \in Tables => StructMatches(file, def)
  BY <1>1, ObjectMatches
<1>2. TablesMatch
  <2>1. SUFFICES ASSUME Done, NEW t \in Present(cmd.seen, Tables \ Skipped), NEW file,
                        NEW def, file = models[ModelFile[t]], def = cmd.seen[t]
        PROVE  /\ IsGo(file)
               /\ \A c \in Range(def) :
                    PascalCase[c.name] \in FieldNames(file.main) \cup FieldNames(file.ext)
    BY DEF TablesMatch
  <2>2. t \in Tables /\ t \in Present(cmd.seen, ModelObjects \ Skipped) BY DEF Present, ModelObjects
  <2>3. IsGo(file) /\ StructMatches(file, def) BY <2>1, <2>2, ObjectMatches
  <2>4. \A f \in Range(file.main) : f.name \in FieldNames(file.main) BY DEF FieldNames
  <2> QED BY <2>3, <2>4 DEF StructMatches
<1>3. ASSUME BlocksApart PROVE ModelsMatchSchema
  BY <1>1, <1>3 DEF ModelsMatchSchema, EnumMatches, StructMatches
<1> QED BY <1>2, <1>3

LEMMA FittingIdempotent == ASSUME BlocksApart, ModelInv PROVE GenerateIsIdempotent
<1> SUFFICES ASSUME Done, NEW o \in Present(cmd.seen, ModelObjects \ Skipped), NEW file, NEW def,
                    file = models[ModelFile[o]], def = cmd.seen[o]
    PROVE  MergedModel(o, file, def) = file
  BY DEF GenerateIsIdempotent
<1> QED BY DoneFits, FittingStays

\* What the struct's fields name is imported when no column is an array of times.
LEMMA FittingCompiles == ASSUME TablesApart, ModelInv PROVE TablesCompile
<1> SUFFICES ASSUME Done, NEW t \in Present(cmd.seen, Tables \ Skipped), NEW file, NEW def,
                    file = models[ModelFile[t]], def = cmd.seen[t],
                    \A c \in Range(def) : c.type # "timestamptz[]"
    PROVE  Compiles(file)
  BY DEF TablesCompile
<1>1. t \in Tables /\ t \in Present(cmd.seen, ModelObjects \ Skipped) BY DEF Present, ModelObjects
<1>2. Fitting(t, file, def) /\ def \in Shapes[t] /\ t \in ModelObjects BY <1>1, DoneFits
<1>3. def \in Seq(Columns) /\ FieldsApart(def) BY <1>1, <1>2, ShapesAssumption DEF TablesApart
<1>4. PICK main, needed : main = file.main /\ needed = FilterImports(main, ImportsOf(def)) OBVIOUS
<1>5. /\ main = TableMain(file, def) /\ needed \subseteq file.imports
      /\ file.imports \subseteq needed \cup UsedPackages(file)
      /\ Needed(file) \subseteq file.imports /\ file.consts = <<>>
  BY <1>1, <1>2, <1>4, NamesAssumption DEF Fitting, ObjectFile
<1>6. PICK n \in Nat : DOMAIN main = 1..n BY <1>3, <1>5, TableMainIs
<1>7. PICK N : N = UNION {Names(f.type) : f \in Range(main)} OBVIOUS
<1>8. UsedPackages(file) = N \cup Needed(file) BY <1>4, <1>7, UsedIs
<1>9. ASSUME NEW i \in 1..n PROVE Names(main[i].type) \subseteq needed
  <2>1. PICK k \in DOMAIN def : main[i].type = PgTypeToGo(def[k].type, def[k].nullable)
    <3>1. main = TableMain(file, def) /\ def \in Seq(Columns) /\ FieldsApart(def)
      BY <1>3, <1>5
    <3>2. MainFields(main, def, file.ext) BY <3>1, TableMainIs
    <3>3. \E k \in DOMAIN def : main[i].type = PgTypeToGo(def[k].type, def[k].nullable)
      BY <1>6, <3>2 DEF MainFields
    <3> QED BY <3>3
  <2>2. PICK c : c = def[k] /\ c \in Columns /\ c \in Range(def)
    <3>1. def[k] \in Columns BY <1>3
    <3>2. def[k] \in Range(def) BY DEF Range
    <3> QED BY <3>1, <3>2
  <2>3. Names(main[i].type) = ImportOf(c.type) BY <2>1, <2>2, TypeNames
  <2>4. ImportOf(c.type) \subseteq ImportsOf(def) BY <2>2 DEF ImportsOf
  <2>5. main[i] \in Range(main) BY <1>6 DEF Range
  <2>6. c.type \in {"int4", "timestamptz", "jsonb"} BY <2>2 DEF Columns, PgTypes
  <2>7. CASE c.type = "int4" BY <2>3, <2>7 DEF ImportOf
  <2>8. CASE c.type = "timestamptz"
    <3>1. main[i].type \in {"time.Time", "*time.Time"} BY <2>1, <2>2, <2>8 DEF PgTypeToGo
    <3>2. ImportOf(c.type) = {"time"} BY <2>8 DEF ImportOf
    <3> QED BY <1>4, <2>3, <2>4, <2>5, <3>1, <3>2 DEF FilterImports
  <2>9. CASE c.type = "jsonb"
    <3>1. main[i].type = "json.RawMessage" BY <2>1, <2>2, <2>9 DEF PgTypeToGo
    <3>2. ImportOf(c.type) = {"json"} BY <2>9 DEF ImportOf
    <3> QED BY <1>4, <2>3, <2>4, <2>5, <3>1, <3>2 DEF FilterImports
  <2> QED BY <2>6, <2>7, <2>8, <2>9
<1>10. N \subseteq needed
  <2>1. \A f \in Range(main) : Names(f.type) \subseteq needed BY <1>6, <1>9 DEF Range
  <2> QED BY <1>7, <2>1
<1>11. needed \subseteq N
  <2>1. SUFFICES ASSUME NEW p \in needed PROVE p \in N OBVIOUS
  <2>2. PICK f \in Range(main) : \/ p = "time" /\ f.type \in {"time.Time", "*time.Time"}
                                 \/ p = "json" /\ f.type = "json.RawMessage"
    BY <1>4, <2>1 DEF FilterImports
  <2>3. p \in Names(f.type) BY <2>2 DEF Names
  <2> QED BY <1>7, <2>2, <2>3
<1>12. UsedPackages(file) = file.imports BY <1>5, <1>8, <1>10, <1>11
<1>13. IsInjective([i \in DOMAIN file.main |-> file.main[i].name])
  <2>1. \A i, j \in DOMAIN main : main[i].name = main[j].name => i = j
    BY <1>3, <1>5, TableMainIs
  <2> QED BY <1>4, <2>1 DEF IsInjective
<1>14. IsInjective(FlattenSeq(file.consts))
  <2>1. FlattenSeq(<<>>) = <<>>
    <3>1. <<>> = [i \in 1..0 |-> <<>>] OBVIOUS
    <3> QED BY <3>1, FlattenEmpty
  <2> QED BY <1>5, <2>1 DEF IsInjective
<1> QED BY <1>12, <1>13, <1>14 DEF Compiles

\* After a run that ended well every model file is what the schema says: an enum has its
\* labels, a composite its fields, and a table's struct one field of the right type for
\* each column the user's extension does not hold, none twice and none left over
\* (mergeTableFile, mergeStructFile, mergeEnumFile); whatever the files were before, torn
\* ones included.  Two columns of a table whose names become one field are ruled out, and
\* constants of the user's that begin with the enum's name.
THEOREM ModelsFollowTheSchema ==
  ASSUME TablesApart, BlocksApart PROVE Spec => []ModelsMatchSchema
<1>1. ModelInv => ModelsMatchSchema BY FittingMatches
<1> QED BY <1>1, ModelsHold, PTL

\* A second run with the same schema writes back each model file as it found it: what the
\* merge reads of its own output is what it wrote (mergeTableFile, filterUsedImports).
THEOREM SecondRunChangesNothing ==
  ASSUME TablesApart, BlocksApart PROVE Spec => []GenerateIsIdempotent
<1>1. ModelInv => GenerateIsIdempotent BY FittingIdempotent
<1> QED BY <1>1, ModelsHold, PTL

\* A table's file imports the packages its fields name and no other, whatever imports the
\* user's part needs, when no column is an array of times (mergeTableFile): what the
\* merge drops, keeps and adds comes out right from every file it can find.
THEOREM TableModelsCompile == ASSUME TablesApart PROVE Spec => []TablesCompile
<1>1. ModelInv => TablesCompile BY FittingCompiles
<1> QED BY <1>1, ModelsHold, PTL
-----------------------------------------------------------------------------
(* The query file. *)

\* Of which no line is too long for the scanner.
LinesOK(lines) ==
  /\ lines = [i \in 1..Len(lines) |-> lines[i]] /\ Len(lines) \in Nat
  /\ \A i \in 1..Len(lines) : lines[i].kind \in {"name", "comment", "sql"}

\* The SQL between line i and line n.
Between(lines, i, n) ==
  FlattenSeq([k \in 1..(n - i) |-> IF lines[i + k].kind = "sql" THEN <<lines[i + k]>> ELSE <<>>])

\* One line more: its text is the text so far with the line's own, if it is SQL.
LEMMA OneMore ==
  ASSUME NEW S, NEW more \in Seq(S), NEW list \in Seq(S), NEW x \in S, NEW n \in Nat,
         Len(more) = n + 1, Len(list) = n, more[n + 1] = x, \A i \in 1..n : more[i] = list[i]
  PROVE  more = Append(list, x)
OBVIOUS

LEMMA BetweenIs ==
  ASSUME NEW lines, LinesOK(lines), NEW i \in 1..Len(lines), NEW n \in i..Len(lines)
  PROVE  /\ Between(lines, i, n) \in Seq({line \in Elements(lines) : line.kind = "sql"})
         /\ Between(lines, i, i) = <<>>
         /\ n < Len(lines) =>
              Between(lines, i, n + 1) = IF lines[n + 1].kind = "sql"
                                         THEN Append(Between(lines, i, n), lines[n + 1])
                                         ELSE Between(lines, i, n)
<1>1. PICK E : E = {line \in Elements(lines) : line.kind = "sql"} OBVIOUS
<1>2. \A k \in 1..Len(lines) : lines[k].kind = "sql" => lines[k] \in E BY <1>1 DEF Elements
<1>3. Len(lines) \in Nat BY DEF LinesOK
<1>4. ASSUME NEW m \in i..Len(lines), NEW ss,
             ss = [k \in 1..(m - i) |-> IF lines[i + k].kind = "sql" THEN <<lines[i + k]>> ELSE <<>>]
      PROVE  /\ ss \in Seq(Seq(E)) /\ Len(ss) = m - i
             /\ \A k \in 1..(m - i) : ss[k] = IF lines[i + k].kind = "sql" THEN <<lines[i + k]>> ELSE <<>>
  <2>1. m - i \in Nat BY <1>3
  <2>2. \A k \in 1..(m - i) : ss[k] = IF lines[i + k].kind = "sql" THEN <<lines[i + k]>> ELSE <<>>
    BY <1>4
  <2>3. ASSUME NEW k \in 1..(m - i) PROVE ss[k] \in Seq(E)
    <3>1. i + k \in 1..Len(lines) BY <1>3
    <3>2. lines[i + k].kind = "sql" => <<lines[i + k]>> \in Seq(E) BY <1>2, <3>1
    <3>3. <<>> \in Seq(E) OBVIOUS
    <3> QED BY <2>2, <3>2, <3>3
  <2>4. ss \in [1..(m - i) -> Seq(E)]
    <3>1. ss = [k \in 1..(m - i) |-> ss[k]] BY <1>4
    <3> QED BY <2>3, <3>1
  <2> QED BY <2>1, <2>2, <2>4, FunctionIsList
<1>5. PICK ss : ss = [k \in 1..(n - i) |-> IF lines[i + k].kind = "sql" THEN <<lines[i + k]>> ELSE <<>>]
  OBVIOUS
<1>6. ss \in Seq(Seq(E)) /\ Len(ss) = n - i BY <1>4, <1>5
<1>7. Between(lines, i, n) = FlattenSeq(ss) BY <1>5 DEF Between
<1>8. Between(lines, i, n) \in Seq(E) BY <1>6, <1>7, FlattenType
<1>9. Between(lines, i, i) = <<>>
  <2>1. 1..(i - i) = {} /\ 1..0 = {} BY <1>3
  <2>2. [k \in 1..(i - i) |-> IF lines[i + k].kind = "sql" THEN <<lines[i + k]>> ELSE <<>>]
          = [k \in 1..0 |-> <<>>]
    BY <2>1
  <2> QED BY <2>2, FlattenEmpty DEF Between
<1>10. ASSUME n < Len(lines)
       PROVE  Between(lines, i, n + 1) = IF lines[n + 1].kind = "sql"
                                         THEN Append(Between(lines, i, n), lines[n + 1])
                                         ELSE Between(lines, i, n)
  <2>1. n + 1 \in i..Len(lines) /\ n + 1 \in 1..Len(lines) BY <1>3, <1>10
  <2>2. PICK tt : tt = [k \in 1..((n + 1) - i) |->
                          IF lines[i + k].kind = "sql" THEN <<lines[i + k]>> ELSE <<>>] OBVIOUS
  <2>3. PICK s : s = IF lines[n + 1].kind = "sql" THEN <<lines[n + 1]>> ELSE <<>> OBVIOUS
  <2>4. tt \in Seq(Seq(E)) /\ Len(tt) = (n + 1) - i
        /\ \A k \in 1..((n + 1) - i) :
             tt[k] = IF lines[i + k].kind = "sql" THEN <<lines[i + k]>> ELSE <<>>
    BY <1>4, <2>1, <2>2
  <2>5. s \in Seq(E)
    <3>1. lines[n + 1].kind = "sql" => <<lines[n + 1]>> \in Seq(E) BY <1>2, <2>1
    <3> QED BY <2>3, <3>1
  <2>6. tt = Append(ss, s)
    <3>1. (n + 1) - i = (n - i) + 1 /\ n - i \in Nat /\ i + ((n - i) + 1) = n + 1 BY <1>3
    <3>2. tt[(n - i) + 1] = s
      <4>1. (n - i) + 1 \in 1..((n + 1) - i) BY <3>1
      <4> QED BY <2>3, <2>4, <3>1, <4>1
    <3>3. \A k \in 1..(n - i) : tt[k] = ss[k]
      <4>1. \A k \in 1..(n - i) : k \in 1..((n + 1) - i) BY <3>1
      <4>2. \A k \in 1..(n - i) : ss[k] = IF lines[i + k].kind = "sql" THEN <<lines[i + k]>> ELSE <<>>
        BY <1>5
      <4> QED BY <2>4, <4>1, <4>2
    <3>4. PICK T, m : T = Seq(E) /\ m = n - i /\ m \in Nat BY <3>1
    <3>5. tt \in Seq(T) /\ ss \in Seq(T) /\ s \in T /\ Len(tt) = m + 1 /\ Len(ss) = m
          /\ tt[m + 1] = s /\ \A k \in 1..m : tt[k] = ss[k]
      BY <1>6, <2>4, <2>5, <3>1, <3>2, <3>3, <3>4
    <3> QED BY <3>4, <3>5, OneMore
  <2>7. FlattenSeq(tt) = FlattenSeq(ss) \o s BY <1>6, <2>5, <2>6, FlattenAppend
  <2>8. Between(lines, i, n + 1) = FlattenSeq(tt) BY <2>2 DEF Between
  <2>9. PICK b : b = Between(lines, i, n) OBVIOUS
  <2>10. b \in Seq(E) BY <1>8, <2>9
  <2>11. Between(lines, i, n + 1) = b \o s BY <1>7, <2>7, <2>8, <2>9
  <2>12. CASE lines[n + 1].kind = "sql"
    <3>1. lines[n + 1] \in E BY <1>2, <2>1, <2>12
    <3>2. s = <<lines[n + 1]>> BY <2>3, <2>12
    <3>3. b \o s = Append(b, lines[n + 1]) BY <2>10, <3>1, <3>2
    <3> QED BY <2>9, <2>11, <2>12, <3>3
  <2>13. CASE lines[n + 1].kind # "sql"
    <3>1. s = <<>> BY <2>3, <2>13
    <3>2. b \o s = b BY <2>10, <3>1
    <3> QED BY <2>9, <2>11, <2>13, <3>2
  <2> QED BY <2>12, <2>13
<1> QED BY <1>1, <1>8, <1>9, <1>10

\* The scanner's state after every line.
Scanned(f, lines, n) ==
  /\ f[0] = Scanning
  /\ \A i \in 0..(n - 1) : f[i + 1] = ScanLine(f[i], lines[i + 1])

LEMMA ScannedFrom ==
  ASSUME NEW lines, NEW N \in Nat, N = Len(lines)
  PROVE  \E f : Scanned(f, lines, N) /\ ParseQueryContent(lines) = Flush(f[N])
<1> DEFINE Upto(m, f) == f = [n \in 0..m |-> IF n = 0 THEN Scanning ELSE ScanLine(f[n - 1], lines[n])]
           T == {m \in 0..N : \E f : Upto(m, f)}
<1>1. 0 \in T
  <2>1. PICK f : f = [n \in 0..0 |-> Scanning] OBVIOUS
  <2>2. \A n \in 0..0 : n = 0 OBVIOUS
  <2>3. f = [n \in 0..0 |-> IF n = 0 THEN Scanning ELSE ScanLine(f[n - 1], lines[n])] BY <2>1, <2>2
  <2>4. 0 \in 0..N OBVIOUS
  <2> QED BY <2>3, <2>4
<1>2. ASSUME NEW m \in 0..N, m < N, m \in T PROVE m + 1 \in T
  <2>1. PICK f : Upto(m, f) BY <1>2
  <2>2. PICK g : g = [n \in 0..(m + 1) |-> IF n = 0 THEN Scanning ELSE ScanLine(f[n - 1], lines[n])]
    OBVIOUS
  <2>3. \A n \in 0..m : f[n] = IF n = 0 THEN Scanning ELSE ScanLine(f[n - 1], lines[n]) BY <2>1
  <2>4. \A n \in 0..m : n \in 0..(m + 1) OBVIOUS
  <2>5. \A n \in 0..m : g[n] = f[n] BY <2>2, <2>3, <2>4
  <2>6. \A n \in 0..(m + 1) : n # 0 => n - 1 \in 0..m OBVIOUS
  <2>7. g = [n \in 0..(m + 1) |-> IF n = 0 THEN Scanning ELSE ScanLine(g[n - 1], lines[n])]
    BY <2>2, <2>5, <2>6
  <2>8. m + 1 \in 0..N BY <1>2
  <2> QED BY <2>7, <2>8
<1> HIDE DEF T
<1>3. N \in T
  <2>1. \A m \in 0..N : m < N /\ m \in T => m + 1 \in T BY <1>2
  <2>2. 0..N \subseteq T BY <1>1, <2>1, Induction, Zenon
  <2> QED BY <2>2
<1>4. PICK f : Upto(N, f) BY <1>3 DEF T
<1> DEFINE h == CHOOSE h : h = [n \in 0..Len(lines) |->
                                  IF n = 0 THEN Scanning ELSE ScanLine(h[n - 1], lines[n])]
<1>5. Upto(N, h) BY <1>4
<1>6. ParseQueryContent(lines) = Flush(h[N]) BY DEF ParseQueryContent
<1> HIDE DEF h
<1>7. \A n \in 0..N : h[n] = IF n = 0 THEN Scanning ELSE ScanLine(h[n - 1], lines[n]) BY <1>5
<1>8. h[0] = Scanning BY <1>7
<1>9. ASSUME NEW i \in 0..(N - 1) PROVE h[i + 1] = ScanLine(h[i], lines[i + 1])
  <2>1. i + 1 \in 0..N /\ i + 1 # 0 /\ (i + 1) - 1 = i OBVIOUS
  <2> QED BY <1>7, <2>1
<1> QED BY <1>6, <1>8, <1>9 DEF Scanned
-----------------------------------------------------------------------------
(* What the parser returns. *)

QueryAt(i) == [name |-> source[i].name, result |-> source[i].result, sql |-> SqlOf(i)]
Before(i)  == {QueryAt(j) : j \in {k \in Annotations : k < i /\ SqlOf(k) # <<>>}}
AllQueries == {QueryAt(j) : j \in {k \in Annotations : SqlOf(k) # <<>>}}

\* The annotation that line n belongs to.
Above(i, n) == i \in Annotations /\ i <= n /\ \A j \in Annotations : j <= n => j <= i

ScanState(s, n) ==
  /\ s = [current |-> s.current, sql |-> s.sql, queries |-> s.queries, stopped |-> FALSE]
  /\ s.queries \in Seq(AllQueries)
  /\ \/ /\ \A j \in Annotations : j > n
        /\ s.current = NoQuery /\ s.sql = <<>> /\ s.queries = <<>>
     \/ \E i \in Annotations :
          /\ Above(i, n)
          /\ s.current = source[i] /\ s.sql = Between(source, i, n)
          /\ Elements(s.queries) = Before(i)

LEMMA LinesAre ==
  ASSUME LinesOK(source)
  PROVE  /\ DOMAIN source = 1..Len(source) /\ Len(source) \in Nat
         /\ Annotations \subseteq 1..Len(source)
         /\ \A i \in 1..Len(source) : i \in Annotations <=> source[i].kind = "name"
BY DEF LinesOK, Annotations

\* The SQL of an annotation stands before the next one, or the end of the file.
LEMMA SqlIs ==
  ASSUME LinesOK(source), NEW i \in Annotations, NEW n \in i..Len(source), Above(i, n),
         n = Len(source) \/ n + 1 \in Annotations
  PROVE  SqlOf(i) = Between(source, i, n)
<1>a. Annotations \subseteq 1..Len(source) /\ Len(source) \in Nat BY LinesAre
<1>1. /\ Annotations \subseteq 1..Len(source) /\ Len(source) \in Nat /\ i \in Nat
      /\ \A j \in Annotations : j \in Nat /\ j <= Len(source)
  BY <1>a
<1>2. PICK later : later = {j \in Annotations : j > i} OBVIOUS
<1>3. PICK end : end = IF later = {} THEN Len(source) ELSE Min(later) - 1 OBVIOUS
<1>4. SqlOf(i) = Between(source, i, end) BY <1>2, <1>3 DEF SqlOf, Between
<1>5. \A j \in later : j \in Nat /\ j > n BY <1>1, <1>2 DEF Above
<1>6. end = n
  <2>1. CASE n = Len(source)
    <3>1. \A j \in later : j \in Nat /\ j <= n /\ j > n BY <1>1, <1>2, <1>5, <2>1
    <3>2. later = {} BY <1>1, <2>1, <3>1
    <3> QED BY <1>3, <2>1, <3>2
  <2>2. CASE n + 1 \in Annotations
    <3>1. n + 1 \in later /\ \A j \in later : n + 1 <= j BY <1>1, <1>2, <1>5, <2>2
    <3>2. \A x \in later : (\A j \in later : x <= j) => x = n + 1 BY <1>1, <1>5, <3>1
    <3>3. Min(later) = n + 1 BY <3>1, <3>2 DEF Min
    <3> QED BY <1>1, <1>3, <3>1, <3>3
  <2> QED BY <2>1, <2>2
<1> QED BY <1>4, <1>6

\* The list with one more.
LEMMA AppendElements ==
  ASSUME NEW S, NEW list \in Seq(S), NEW x \in S
  PROVE  Append(list, x) \in Seq(S) /\ Elements(Append(list, x)) = Elements(list) \cup {x}
<1>1. PICK n \in Nat : n = Len(list) OBVIOUS
<1>2. PICK more : more = Append(list, x) OBVIOUS
<1>3. more \in Seq(S) /\ Len(more) = n + 1 /\ more[n + 1] = x /\ \A i \in 1..n : more[i] = list[i]
  BY <1>1, <1>2
<1>4. 1..(n + 1) = 1..n \cup {n + 1} OBVIOUS
<1>5. Elements(more) = {more[i] : i \in 1..(n + 1)} BY <1>3 DEF Elements
<1>6. Elements(list) = {list[i] : i \in 1..n} BY <1>1 DEF Elements
<1>7. {more[i] : i \in 1..(n + 1)} = {list[i] : i \in 1..n} \cup {x} BY <1>3, <1>4
<1> QED BY <1>2, <1>3, <1>5, <1>6, <1>7

\* The query read last is kept if it has SQL.
LEMMA FlushIs ==
  ASSUME LinesOK(source), NEW s, NEW n \in 0..Len(source), ScanState(s, n),
         n = Len(source) \/ n + 1 \in Annotations
  PROVE  /\ Flush(s) \in Seq(AllQueries)
         /\ Elements(Flush(s)) = {QueryAt(j) : j \in {k \in Annotations : k <= n /\ SqlOf(k) # <<>>}}
<1>1. Annotations \subseteq 1..Len(source) /\ Len(source) \in Nat /\ Annotations \subseteq Nat
  BY LinesAre
<1>2. CASE \A j \in Annotations : j > n
  <2>1. s.current = NoQuery /\ s.queries = <<>>
    <3>1. ~\E i \in Annotations : Above(i, n) BY <1>1, <1>2 DEF Above
    <3> QED BY <3>1 DEF ScanState
  <2>2. Flush(s) = <<>> BY <2>1 DEF Flush
  <2>3. {k \in Annotations : k <= n /\ SqlOf(k) # <<>>} = {}
    <3>1. \A k \in Annotations : ~(k <= n) BY <1>1, <1>2
    <3> QED BY <3>1
  <2>4. Elements(<<>>) = {} BY DEF Elements
  <2>5. <<>> \in Seq(AllQueries) OBVIOUS
  <2> QED BY <2>2, <2>3, <2>4, <2>5
<1>3. CASE \E i \in Annotations : i <= n
  <2>1. PICK i \in Annotations : /\ Above(i, n)
                                 /\ s.current = source[i] /\ s.sql = Between(source, i, n)
                                 /\ Elements(s.queries) = Before(i)
    <3>1. ~\A j \in Annotations : j > n BY <1>1, <1>3
    <3> QED BY <3>1 DEF ScanState
  <2>2. n \in i..Len(source) BY <1>1, <2>1 DEF Above
  <2>3. SqlOf(i) = s.sql BY <2>1, <2>2, SqlIs
  <2>4. source[i].kind = "name" BY <1>1, LinesAre
  <2>5. s.current # NoQuery BY <2>1, <2>4 DEF NoQuery
  <2>6. s.queries \in Seq(AllQueries) BY DEF ScanState
  <2>7. PICK K : K = {k \in Annotations : k <= n /\ SqlOf(k) # <<>>} OBVIOUS
  <2>8. PICK J : J = {k \in Annotations : k < i /\ SqlOf(k) # <<>>} OBVIOUS
  <2>9. \A k \in Annotations : k <= n <=> (k < i \/ k = i) BY <1>1, <2>1 DEF Above
  <2>10. Before(i) = {QueryAt(j) : j \in J} BY <2>8 DEF Before
  <2>11. CASE s.sql = <<>>
    <3>1. Flush(s) = s.queries BY <2>11 DEF Flush
    <3>2. K = J BY <2>3, <2>7, <2>8, <2>9, <2>11
    <3> QED BY <2>1, <2>6, <2>7, <2>10, <3>1, <3>2
  <2>12. CASE s.sql # <<>>
    <3>1. Flush(s) = Append(s.queries, QueryAt(i))
      BY <2>1, <2>3, <2>5, <2>12 DEF Flush, QueryAt
    <3>2. K = J \cup {i} BY <1>1, <2>3, <2>7, <2>8, <2>9, <2>12
    <3>3. QueryAt(i) \in AllQueries BY <2>3, <2>12 DEF AllQueries
    <3>4. /\ Flush(s) \in Seq(AllQueries)
          /\ Elements(Flush(s)) = Elements(s.queries) \cup {QueryAt(i)}
      BY <2>6, <3>1, <3>3, AppendElements
    <3>5. {QueryAt(j) : j \in K} = {QueryAt(j) : j \in J} \cup {QueryAt(i)} BY <3>2
    <3> QED BY <2>1, <2>7, <2>10, <3>4, <3>5
  <2> QED BY <2>11, <2>12
<1> QED BY <1>1, <1>2, <1>3

LEMMA ScanNext ==
  ASSUME LinesOK(source), NEW s, NEW n \in 0..Len(source), n < Len(source), ScanState(s, n)
  PROVE  ScanState(ScanLine(s, source[n + 1]), n + 1)
<1>1. Annotations \subseteq 1..Len(source) /\ Len(source) \in Nat /\ Annotations \subseteq Nat
  BY LinesAre
<1>2. n + 1 \in 1..Len(source) /\ n + 1 \in Nat BY <1>1
<1>3. PICK line : line = source[n + 1] OBVIOUS
<1>4. PICK t : t = ScanLine(s, line) OBVIOUS
<1>5. PICK current, sql, queries :
        /\ s = [current |-> current, sql |-> sql, queries |-> queries, stopped |-> FALSE]
        /\ current = s.current /\ sql = s.sql /\ queries = s.queries
  BY DEF ScanState
<1>6. line.kind \in {"name", "comment", "sql"} BY <1>2, <1>3 DEF LinesOK
<1>7. n + 1 \in Annotations <=> line.kind = "name" BY <1>2, <1>3, LinesAre
<1>8. ~s.stopped BY <1>5
<1>9. CASE line.kind = "name"
  <2>1. t = [s EXCEPT !.queries = Flush(s), !.current = line, !.sql = NoSql(s)]
    BY <1>4, <1>8, <1>9 DEF ScanLine
  <2>2. PICK kept : kept = Flush(s) OBVIOUS
  <2>3. t = [current |-> line, sql |-> <<>>, queries |-> kept, stopped |-> FALSE]
    BY <1>5, <2>1, <2>2 DEF NoSql
  <2>4. t.current = line /\ t.sql = <<>> /\ t.queries = kept BY <2>3
  <2>5. n + 1 \in Annotations BY <1>7, <1>9
  <2>6. /\ kept \in Seq(AllQueries)
        /\ Elements(kept) = {QueryAt(j) : j \in {k \in Annotations : k <= n /\ SqlOf(k) # <<>>}}
    BY <2>2, <2>5, FlushIs
  <2>7. \A k \in Annotations : k <= n <=> k < n + 1 BY <1>1
  <2>8. {k \in Annotations : k <= n /\ SqlOf(k) # <<>>} = {k \in Annotations : k < n + 1 /\ SqlOf(k) # <<>>}
    BY <2>7
  <2>9. Elements(kept) = Before(n + 1) BY <2>6, <2>8 DEF Before
  <2>10. Above(n + 1, n + 1) BY <1>2, <2>5 DEF Above
  <2>11. Between(source, n + 1, n + 1) = <<>>
    <3>1. n + 1 \in (n + 1)..Len(source) BY <1>2
    <3> QED BY <1>2, <3>1, BetweenIs
  <2>12. ScanState(t, n + 1)
    BY <1>3, <2>3, <2>4, <2>5, <2>6, <2>9, <2>10, <2>11 DEF ScanState
  <2> QED BY <1>3, <1>4, <2>12
<1>10. CASE line.kind # "name"
  <2>1. PICK now : now = IF line.kind = "sql" /\ current # NoQuery THEN Append(sql, line) ELSE sql
    OBVIOUS
  <2>2. t = [current |-> current, sql |-> now, queries |-> queries, stopped |-> FALSE]
    <3>1. CASE line.kind = "sql"
      <4>1. t = [s EXCEPT !.sql = IF s.current = NoQuery THEN @ ELSE Append(@, line)]
        BY <1>4, <1>8, <3>1 DEF ScanLine
      <4> QED BY <1>5, <2>1, <3>1, <4>1
    <3>2. CASE line.kind = "comment"
      <4>1. t = s BY <1>4, <1>8, <3>2 DEF ScanLine
      <4> QED BY <1>5, <2>1, <3>2, <4>1
    <3> QED BY <1>6, <1>10, <3>1, <3>2
  <2>3. t.current = current /\ t.sql = now /\ t.queries = queries BY <2>2
  <2>4. n + 1 \notin Annotations BY <1>7, <1>10
  <2>5. queries \in Seq(AllQueries) BY <1>5 DEF ScanState
  <2>6. CASE \A j \in Annotations : j > n
    <3>1. current = NoQuery /\ queries = <<>> /\ sql = <<>>
      <4>1. ~\E i \in Annotations : Above(i, n) BY <1>1, <2>6 DEF Above
      <4> QED BY <1>5, <4>1 DEF ScanState
    <3>2. \A j \in Annotations : j > n + 1 BY <1>1, <1>2, <2>4, <2>6
    <3>3. now = <<>> BY <2>1, <3>1
    <3>4. ScanState(t, n + 1) BY <2>2, <2>3, <2>5, <3>1, <3>2, <3>3 DEF ScanState
    <3> QED BY <1>3, <1>4, <3>4
  <2>7. CASE \E i \in Annotations : i <= n
    <3>1. PICK i \in Annotations : /\ Above(i, n)
                                   /\ current = source[i] /\ sql = Between(source, i, n)
                                   /\ Elements(queries) = Before(i)
      <4>1. ~\A j \in Annotations : j > n BY <1>1, <2>7
      <4> QED BY <1>5, <4>1 DEF ScanState
    <3>2. Above(i, n + 1) BY <1>1, <1>2, <2>4, <3>1 DEF Above
    <3>3. i \in 1..Len(source) /\ n \in i..Len(source) BY <1>1, <3>1 DEF Above
    <3>4. current # NoQuery
      <4>1. source[i].kind = "name" BY <3>3, LinesAre
      <4> QED BY <3>1, <4>1 DEF NoQuery
    <3>5. now = Between(source, i, n + 1)
      <4>1. Between(source, i, n + 1) = IF source[n + 1].kind = "sql"
                                        THEN Append(Between(source, i, n), source[n + 1])
                                        ELSE Between(source, i, n)
        BY <3>3, BetweenIs
      <4> QED BY <1>3, <2>1, <3>1, <3>4, <4>1
    <3>6. ScanState(t, n + 1) BY <2>2, <2>3, <2>5, <3>1, <3>2, <3>5 DEF ScanState
    <3> QED BY <1>3, <1>4, <3>6
  <2> QED BY <1>1, <2>6, <2>7
<1> QED BY <1>9, <1>10

\* The parser returns the queries as the file's author reads them.
LEMMA ParsedIs ==
  ASSUME LinesOK(source), NEW parsed, parsed = ParseQueryContent(source)
  PROVE  parsed \in Seq(AllQueries) /\ Elements(parsed) = AllQueries
<1>1. PICK N \in Nat : N = Len(source) BY LinesAre
<1>2. PICK f : Scanned(f, source, N) /\ ParseQueryContent(source) = Flush(f[N])
  BY <1>1, ScannedFrom, Zenon
<1>3. Annotations \subseteq 1..N /\ Annotations \subseteq Nat BY <1>1, LinesAre
<1>4. PICK T : T = {n \in 0..N : ScanState(f[n], n)} OBVIOUS
<1>5. 0 \in T
  <2>1. f[0] = [current |-> NoQuery, sql |-> <<>>, queries |-> <<>>, stopped |-> FALSE]
    BY <1>2 DEF Scanned, Scanning
  <2>2. /\ f[0].current = NoQuery /\ f[0].sql = <<>> /\ f[0].queries = <<>>
        /\ <<>> \in Seq(AllQueries)
    BY <2>1
  <2>3. \A j \in Annotations : j > 0 BY <1>3
  <2>4. ScanState(f[0], 0) BY <2>1, <2>2, <2>3 DEF ScanState
  <2> QED BY <1>4, <2>4
<1>6. ASSUME NEW n \in 0..N, n < N, n \in T PROVE n + 1 \in T
  <2>1. n \in 0..(N - 1) /\ n + 1 \in 0..N BY <1>6
  <2>2. f[n + 1] = ScanLine(f[n], source[n + 1]) BY <1>2, <2>1 DEF Scanned
  <2>3. ScanState(f[n], n) BY <1>4, <1>6
  <2>4. ScanState(f[n + 1], n + 1) BY <1>1, <1>6, <2>2, <2>3, ScanNext
  <2> QED BY <1>4, <2>1, <2>4
<1>7. \A n \in 0..N : n < N /\ n \in T => n + 1 \in T BY <1>6
<1>8. 0..N \subseteq T BY <1>5, <1>7, Induction, Zenon
<1>9. ScanState(f[N], N) BY <1>4, <1>8
<1>10. /\ Flush(f[N]) \in Seq(AllQueries)
       /\ Elements(Flush(f[N])) = {QueryAt(j) : j \in {k \in Annotations : k <= N /\ SqlOf(k) # <<>>}}
  BY <1>1, <1>9, FlushIs
<1>11. {k \in Annotations : k <= N /\ SqlOf(k) # <<>>} = {k \in Annotations : SqlOf(k) # <<>>}
  <2>1. \A k \in Annotations : k <= N BY <1>3
  <2> QED BY <2>1
<1> QED BY <1>2, <1>10, <1>11 DEF AllQueries
-----------------------------------------------------------------------------
(* The function made of a query. *)

LEMMA PositionIs ==
  ASSUME NEW S, NEW params \in Seq(S), NEW name
  PROVE  \/ /\ PositionOf(params, name) = 0
            /\ \A i \in 1..Len(params) : params[i].name # name
         \/ /\ PositionOf(params, name) \in 1..Len(params)
            /\ params[PositionOf(params, name)].name = name
<1>1. PICK I : I = {i \in 1..Len(params) : params[i].name = name} OBVIOUS
<1>2. PositionOf(params, name) = IF I # {} THEN Min(I) ELSE 0
  BY <1>1 DEF PositionOf, SelectInSeq
<1>3. CASE I = {} BY <1>1, <1>2, <1>3
<1>4. CASE I # {}
  <2>1. I \in SUBSET Nat BY <1>1
  <2>2. \E x \in I : \A y \in I : x <= y BY <1>4, <2>1, Least
  <2>3. Min(I) \in I BY <2>2 DEF Min
  <2> QED BY <1>1, <1>2, <1>4, <2>3
<1> QED BY <1>3, <1>4

NamesIn(list) == {list[i].name : i \in 1..Len(list)}

\* The parameters found among the first n occurrences.
Found(S, occ, p, n) ==
  /\ p \in Seq(S)
  /\ NamesIn(p) = {occ[k].name : k \in 1..n}
  /\ \A i, j \in 1..Len(p) : p[i].name = p[j].name => i = j

\* The parameters are the names that occur, each once.
LEMMA ParametersAre ==
  ASSUME NEW S, NEW occ \in Seq(S), NEW params, params = Parameters(occ)
  PROVE  /\ params \in Seq(S)
         /\ NamesIn(params) = NamesIn(occ)
         /\ \A i, j \in 1..Len(params) : params[i].name = params[j].name => i = j
<1>0. PICK N \in Nat : N = Len(occ) OBVIOUS
<1> DEFINE Upto(m, f) == f = [n \in 0..m |-> IF n = 0 THEN <<>> ELSE AddParameter(f[n - 1], occ[n])]
           T == {m \in 0..N : \E f : Upto(m, f)}
<1>1. 0 \in T
  <2>1. PICK f : f = [n \in 0..0 |-> <<>>] OBVIOUS
  <2>2. \A n \in 0..0 : n = 0 OBVIOUS
  <2>3. f = [n \in 0..0 |-> IF n = 0 THEN <<>> ELSE AddParameter(f[n - 1], occ[n])] BY <2>1, <2>2
  <2>4. 0 \in 0..N OBVIOUS
  <2> QED BY <2>3, <2>4
<1>2. ASSUME NEW m \in 0..N, m < N, m \in T PROVE m + 1 \in T
  <2>1. PICK f : Upto(m, f) BY <1>2
  <2>2. PICK g : g = [n \in 0..(m + 1) |-> IF n = 0 THEN <<>> ELSE AddParameter(f[n - 1], occ[n])]
    OBVIOUS
  <2>3. \A n \in 0..m : f[n] = IF n = 0 THEN <<>> ELSE AddParameter(f[n - 1], occ[n]) BY <2>1
  <2>4. \A n \in 0..m : n \in 0..(m + 1) OBVIOUS
  <2>5. \A n \in 0..m : g[n] = f[n] BY <2>2, <2>3, <2>4
  <2>6. \A n \in 0..(m + 1) : n # 0 => n - 1 \in 0..m OBVIOUS
  <2>7. g = [n \in 0..(m + 1) |-> IF n = 0 THEN <<>> ELSE AddParameter(g[n - 1], occ[n])]
    BY <2>2, <2>5, <2>6
  <2>8. m + 1 \in 0..N BY <1>2
  <2> QED BY <2>7, <2>8
<1> HIDE DEF T
<1>3. N \in T
  <2>1. \A m \in 0..N : m < N /\ m \in T => m + 1 \in T BY <1>2
  <2>2. 0..N \subseteq T BY <1>1, <2>1, Induction, Zenon
  <2> QED BY <2>2
<1>4. PICK f : Upto(N, f) BY <1>3 DEF T
<1> DEFINE h == CHOOSE h : h = [n \in 0..Len(occ) |->
                                  IF n = 0 THEN <<>> ELSE AddParameter(h[n - 1], occ[n])]
<1>5. Upto(N, h) BY <1>0, <1>4
<1>6. params = h[N] BY <1>0 DEF Parameters
<1> HIDE DEF h
<1>7. \A n \in 0..N : h[n] = IF n = 0 THEN <<>> ELSE AddParameter(h[n - 1], occ[n]) BY <1>5
<1>8. PICK U : U = {n \in 0..N : Found(S, occ, h[n], n)} OBVIOUS
<1>9. 0 \in U
  <2>a. 0 \in 0..N OBVIOUS
  <2>1. h[0] = <<>> BY <1>7, <2>a
  <2>2. Found(S, occ, <<>>, 0) BY DEF Found, NamesIn
  <2> QED BY <1>8, <2>1, <2>2
<1>10. ASSUME NEW n \in 0..N, n < N, n \in U PROVE n + 1 \in U
  <2>1. n + 1 \in 1..N /\ n + 1 \in 0..N /\ n + 1 # 0 /\ (n + 1) - 1 = n BY <1>10
  <2>2. PICK p, x : p = h[n] /\ x = occ[n + 1] OBVIOUS
  <2>3. x \in S BY <1>0, <2>1, <2>2
  <2>4. h[n + 1] = AddParameter(p, x) BY <1>7, <2>1, <2>2
  <2>5. Found(S, occ, p, n) BY <1>8, <1>10, <2>2
  <2>6. PICK m \in Nat : m = Len(p) /\ p \in Seq(S) BY <2>5 DEF Found
  <2>7. 1..(n + 1) = 1..n \cup {n + 1} OBVIOUS
  <2>8. {occ[k].name : k \in 1..(n + 1)} = {occ[k].name : k \in 1..n} \cup {x.name} BY <2>2, <2>7
  <2>9. CASE PositionOf(p, x.name) > 0
    <3>1. h[n + 1] = p BY <2>4, <2>9 DEF AddParameter
    <3>2. PICK i \in 1..m : p[i].name = x.name BY <2>6, <2>9, PositionIs
    <3>3. x.name \in NamesIn(p) BY <2>6, <3>2 DEF NamesIn
    <3>4. Found(S, occ, p, n + 1) BY <2>5, <2>8, <3>3 DEF Found
    <3> QED BY <1>8, <2>1, <3>1, <3>4
  <2>10. CASE ~(PositionOf(p, x.name) > 0)
    <3>1. h[n + 1] = Append(p, x) BY <2>4, <2>10 DEF AddParameter
    <3>2. \A i \in 1..m : p[i].name # x.name
      <4>1. PositionOf(p, x.name) \notin 1..m BY <2>10
      <4> QED BY <2>6, <4>1, PositionIs
    <3>3. PICK r : r = Append(p, x) OBVIOUS
    <3>4. /\ r \in Seq(S) /\ Len(r) = m + 1 /\ r[m + 1] = x
          /\ \A i \in 1..m : r[i] = p[i]
      BY <2>3, <2>6, <3>3
    <3>5. 1..(m + 1) = 1..m \cup {m + 1} BY <2>6
    <3>6. NamesIn(r) = NamesIn(p) \cup {x.name}
      <4>1. NamesIn(r) = {r[i].name : i \in 1..(m + 1)} BY <3>4 DEF NamesIn
      <4>2. NamesIn(p) = {p[i].name : i \in 1..m} BY <2>6 DEF NamesIn
      <4>3. {r[i].name : i \in 1..(m + 1)} = {p[i].name : i \in 1..m} \cup {x.name} BY <3>4, <3>5
      <4> QED BY <4>1, <4>2, <4>3
    <3>7. \A i, j \in 1..(m + 1) : r[i].name = r[j].name => i = j
      <4>1. \A i, j \in 1..m : p[i].name = p[j].name => i = j BY <2>5, <2>6 DEF Found
      <4> QED BY <3>2, <3>4, <3>5, <4>1
    <3>8. NamesIn(p) = {occ[k].name : k \in 1..n} BY <2>5 DEF Found
    <3>9. Found(S, occ, r, n + 1) BY <2>8, <3>4, <3>6, <3>7, <3>8 DEF Found
    <3> QED BY <1>8, <2>1, <3>1, <3>3, <3>9
  <2> QED BY <2>9, <2>10
<1>11. \A n \in 0..N : n < N /\ n \in U => n + 1 \in U BY <1>10
<1>12. 0..N \subseteq U BY <1>9, <1>11, Induction, Zenon
<1>13. Found(S, occ, h[N], N) BY <1>8, <1>12
<1>14. NamesIn(occ) = {occ[k].name : k \in 1..N} BY <1>0 DEF NamesIn
<1> QED BY <1>6, <1>13, <1>14 DEF Found

\* The names of parameters, or of columns.
NameSet(list) == {x.name : x \in Range(list)}

\* The arguments of a function stand where its SQL has their names.
LEMMA ArgumentsAre ==
  ASSUME NEW S, NEW sql, NEW occ \in Seq(S), occ = Occurrences(sql), NEW p, p = ExtractParameters(sql)
  PROVE  /\ Len(p.positions) = Len(occ)
         /\ \A k \in DOMAIN occ : p.params[p.positions[k]].name = occ[k].name
         /\ Len(p.params) = Cardinality(NameSet(occ))
<1>1. PICK found : found = Parameters(occ) OBVIOUS
<1>2. /\ found \in Seq(S) /\ NamesIn(found) = NamesIn(occ)
      /\ \A i, j \in 1..Len(found) : found[i].name = found[j].name => i = j
  BY <1>1, ParametersAre
<1>a. PICK n \in Nat, m \in Nat : n = Len(occ) /\ DOMAIN occ = 1..n /\ m = Len(found)
  BY <1>2
<1>3. /\ found \in Seq(S) /\ DOMAIN found = 1..m
      /\ {found[i].name : i \in 1..m} = {occ[k].name : k \in 1..n}
      /\ \A i, j \in 1..m : found[i].name = found[j].name => i = j
  <2>1. DOMAIN found = 1..m BY <1>2, <1>a
  <2>2. NamesIn(found) = {found[i].name : i \in 1..m} BY <1>a DEF NamesIn
  <2>3. NamesIn(occ) = {occ[k].name : k \in 1..n} BY <1>a DEF NamesIn
  <2> QED BY <1>2, <1>a, <2>1, <2>2, <2>3
<1>4. PICK nullable : nullable = UNION {sql[i].isNull : i \in DOMAIN sql} OBVIOUS
<1>5. PICK args, positions :
        /\ args = [i \in 1..m |-> [name |-> found[i].name, type |-> found[i].type,
                                   optional |-> found[i].name \in nullable]]
        /\ positions = [k \in 1..n |-> PositionOf(found, occ[k].name)]
  OBVIOUS
<1>6. p = [params |-> args, positions |-> positions]
  BY <1>1, <1>a, <1>3, <1>4, <1>5 DEF ExtractParameters
<1>7. p.params = args /\ p.positions = positions BY <1>6
<1>8. ASSUME NEW k \in 1..n
      PROVE  positions[k] \in 1..m /\ found[positions[k]].name = occ[k].name
  <2>1. occ[k].name \in {found[i].name : i \in 1..m} BY <1>3
  <2>2. PICK i \in 1..m : found[i].name = occ[k].name BY <2>1
  <2>3. positions[k] = PositionOf(found, occ[k].name) BY <1>5
  <2> QED BY <1>a, <1>3, <2>2, <2>3, PositionIs
<1>9. \A i \in 1..m : args[i].name = found[i].name BY <1>5
<1>10. Len(positions) = n /\ Len(args) = m
  <2>1. PICK P, A : P = Range(positions) /\ A = Range(args) OBVIOUS
  <2>2. positions \in [1..n -> P] /\ args \in [1..m -> A] BY <1>5, <2>1 DEF Range
  <2> QED BY <2>2, FunctionIsList
<1>11. m = Cardinality(NameSet(occ))
  <2>1. PICK names : names = {q.name : q \in Range(occ)} /\ names = NameSet(occ) BY DEF NameSet
  <2>a. Range(occ) = {occ[k] : k \in 1..n} BY <1>a DEF Range
  <2>b. {q.name : q \in {occ[k] : k \in 1..n}} = {occ[k].name : k \in 1..n} OBVIOUS
  <2>2. names = {found[i].name : i \in 1..m} BY <1>3, <2>1, <2>a, <2>b
  <2>3. PICK g : g = [i \in 1..m |-> found[i].name] OBVIOUS
  <2>4. g \in Bijection(1..m, names)
    <3>1. g \in [1..m -> names] BY <2>2, <2>3
    <3>2. IsInjective(g) BY <1>3, <2>3 DEF IsInjective
    <3>3. \A x \in names : \E i \in 1..m : g[i] = x BY <2>2, <2>3
    <3> QED BY <3>1, <3>2, <3>3 DEF Bijection, Injection, Surjection
  <2>5. IsFiniteSet(1..m) /\ Cardinality(1..m) = m BY FS_Interval
  <2>6. Cardinality(names) = m BY <2>4, <2>5, FS_Bijection DEF ExistsBijection
  <2> QED BY <2>1, <2>6
<1> QED BY <1>a, <1>7, <1>8, <1>9, <1>10, <1>11

\* A model is found, the first that matches, or there is none.
ModelFound(query, columns, tables, seen, extensions, match) ==
  \/ /\ match = NoMatch
     /\ \/ columns = <<>> \/ ~Returns(query)
        \/ \A t \in Elements(tables) : ~Matches(columns, t, seen, extensions)
  \/ /\ match # NoMatch /\ Returns(query)
     /\ match.table \in Elements(tables) /\ match.table # ""
     /\ Matches(columns, match.table, seen, extensions)
     /\ match.ext = NameSet(columns) \ NameSet(seen[match.table])

LEMMA FoundIs ==
  ASSUME NEW query, NEW columns, NEW tables \in Seq(Tables), NEW seen, NEW extensions,
         NEW match, match = FindMatchingModel(query, columns, tables, seen, extensions)
  PROVE  ModelFound(query, columns, tables, seen, extensions, match)
<1>1. PICK n \in Nat : n = Len(tables) /\ DOMAIN tables = 1..n OBVIOUS
<1>2. PICK found : found = {i \in 1..n : Matches(columns, tables[i], seen, extensions)} OBVIOUS
<1>3. PICK table : table = tables[Min(found)] OBVIOUS
<1>4. PICK ext : ext = {c.name : c \in Range(columns)} \ {c.name : c \in Range(seen[table])}
                /\ ext = NameSet(columns) \ NameSet(seen[table])
  BY DEF NameSet
<1>5. match = IF columns = <<>> \/ ~Returns(query) \/ found = {} THEN NoMatch
              ELSE [table |-> table, ext |-> ext]
  BY <1>1, <1>2, <1>3, <1>4 DEF FindMatchingModel
<1>6. CASE columns = <<>> \/ ~Returns(query) \/ found = {}
  <2>1. found = {} => \A t \in Elements(tables) : ~Matches(columns, t, seen, extensions)
    BY <1>1, <1>2 DEF Elements
  <2> QED BY <1>5, <1>6, <2>1 DEF ModelFound
<1>7. CASE ~(columns = <<>> \/ ~Returns(query) \/ found = {})
  <2>1. match = [table |-> table, ext |-> ext] BY <1>5, <1>7
  <2>2. Min(found) \in found
    <3>1. found \in SUBSET Nat /\ found # {} BY <1>2, <1>7
    <3>2. \E x \in found : \A y \in found : x <= y BY <3>1, Least
    <3> QED BY <3>2 DEF Min
  <2>3. /\ table \in Elements(tables) /\ table \in Tables
        /\ Matches(columns, table, seen, extensions)
    <3>1. PICK i \in 1..n : i = Min(found) /\ Matches(columns, tables[i], seen, extensions)
      BY <1>2, <2>2
    <3>2. tables[i] \in Tables /\ table = tables[i] BY <1>1, <1>3, <3>1
    <3> QED BY <1>1, <3>1, <3>2 DEF Elements
  <2>4. table # "" BY <2>3, NamesAssumption
  <2>5. match.table = table /\ match.ext = ext BY <2>1
  <2>6. match # NoMatch
    <3>1. NoMatch.table = "" BY DEF NoMatch
    <3> QED BY <2>4, <2>5, <3>1
  <2> QED BY <1>4, <1>7, <2>3, <2>4, <2>5, <2>6 DEF ModelFound
<1> QED BY <1>6, <1>7

\* What a query returns: columns of its table and its own.
LEMMA PreparedIs ==
  ASSUME NEW sql, NEW db, NEW table \in Seq(Columns), table = db[sql[1].from],
         NEW S, sql[1].computed \in Seq(S),
         Prepare(sql, db).ok, NEW columns, columns = Prepare(sql, db).columns
  PROVE  /\ columns \in Seq(Range(columns))
         /\ \A c \in Range(columns) : ~c.agg \/ c \in Range(sql[1].computed)
<1>1. PICK first : first = sql[1] OBVIOUS
<1>2. PICK C : C = {[name |-> c.name, type |-> c.type, agg |-> FALSE] : c \in Columns} OBVIOUS
<1>3. PICK ss : ss = [i \in DOMAIN table |->
                        IF first.star \/ table[i].name \in first.cols
                        THEN <<[name |-> table[i].name, type |-> table[i].type, agg |-> FALSE]>>
                        ELSE <<>>]
  OBVIOUS
<1>4. PICK n \in Nat : n = Len(table) /\ DOMAIN table = 1..n OBVIOUS
<1>5. ss \in Seq(Seq(C))
  <2>1. ASSUME NEW i \in 1..n PROVE ss[i] \in Seq(C)
    <3>1. table[i] \in Columns BY <1>4
    <3>2. PICK x : x = [name |-> table[i].name, type |-> table[i].type, agg |-> FALSE] OBVIOUS
    <3>3. x \in C BY <1>2, <3>1, <3>2
    <3>4. <<x>> \in Seq(C) /\ <<>> \in Seq(C) BY <3>3
    <3>5. ss[i] = IF first.star \/ table[i].name \in first.cols THEN <<x>> ELSE <<>>
      BY <1>3, <1>4, <3>2
    <3> QED BY <3>4, <3>5
  <2>2. ss = [i \in 1..n |-> ss[i]] BY <1>3, <1>4
  <2>3. ss \in [1..n -> Seq(C)] BY <2>1, <2>2
  <2> QED BY <2>3, FunctionIsList
<1>6. PICK chosen, own : chosen = FlattenSeq(ss) /\ own = first.computed OBVIOUS
<1>7. chosen \in Seq(C) /\ own \in Seq(S) BY <1>1, <1>5, <1>6, FlattenType
<1>8. columns = chosen \o own
  <2>1. Prepare(sql, db) # QueryFailed BY DEF QueryFailed
  <2>2. Prepare(sql, db) = [ok |-> TRUE, columns |-> chosen \o own]
    BY <1>1, <1>3, <1>6, <2>1 DEF Prepare
  <2> QED BY <2>2
<1>9. PICK m \in Nat, k \in Nat : m = Len(chosen) /\ k = Len(own) BY <1>7
<1>10. /\ Len(columns) = m + k /\ DOMAIN columns = 1..(m + k)
       /\ \A i \in 1..m : columns[i] = chosen[i]
       /\ \A i \in (m + 1)..(m + k) : columns[i] = own[i - m]
  BY <1>7, <1>8, <1>9
<1>11. ASSUME NEW i \in 1..(m + k) PROVE ~columns[i].agg \/ columns[i] \in Range(own)
  <2>1. CASE i \in 1..m
    <3>1. chosen[i] \in C BY <1>7, <1>9, <2>1
    <3> QED BY <1>2, <1>10, <2>1, <3>1
  <2>2. CASE i \in (m + 1)..(m + k)
    <3>1. i - m \in 1..k BY <2>2
    <3>2. DOMAIN own = 1..k BY <1>7, <1>9
    <3> QED BY <1>10, <2>2, <3>1, <3>2 DEF Range
  <2> QED BY <2>1, <2>2
<1>12. columns \in Seq(Range(columns))
  <2>1. PICK R : R = Range(columns) OBVIOUS
  <2>2. columns \in Seq(C \cup S) BY <1>7, <1>8
  <2>3. \A i \in 1..(m + k) : columns[i] \in R BY <1>10, <2>1 DEF Range
  <2> QED BY <1>10, <2>1, <2>2, <2>3
<1>13. ASSUME NEW c \in Range(columns) PROVE ~c.agg \/ c \in Range(own)
  <2>1. PICK i \in 1..(m + k) : c = columns[i] BY <1>10 DEF Range
  <2> QED BY <1>11, <2>1
<1> QED BY <1>1, <1>6, <1>12, <1>13

\* The file imports what it uses.
LEMMA ImportsAgree ==
  ASSUME NEW query, NEW columns, NEW params, NEW match,
         \A c \in Range(columns) : c.agg => c.type = "jsonb",
         match = NoMatch \/ \A c \in Range(columns) : c.agg => c.name \in match.ext
  PROVE  CollectQueryImports(query, columns, params, match) = QueryUses(query, columns, params, match)
<1>1. PICK P, M : /\ P = QueryImportsOf(params)
                  /\ M = IF NeedsModels(query, columns, match) THEN {"models"} ELSE {} OBVIOUS
<1>2. PICK A : A = IF Returns(query) /\ match = NoMatch THEN QueryImportsOf(columns) ELSE {} OBVIOUS
<1>3. PICK B : B = IF Returns(query) /\ match = NoMatch
                   THEN UNION {QueryImportOf(c.type) : c \in {d \in Range(columns) : ~d.agg}} ELSE {} OBVIOUS
<1>4. PICK J : J = IF Returns(query) /\ Decoded(columns, match) # {} THEN {"json"} ELSE {} OBVIOUS
<1>5. CollectQueryImports(query, columns, params, match) = (A \cup P) \cup M
  BY <1>1, <1>2 DEF CollectQueryImports
<1>6. QueryUses(query, columns, params, match) = ((B \cup P) \cup J) \cup M
  BY <1>1, <1>3, <1>4 DEF QueryUses
<1>7. A = B \cup J
  <2>1. CASE ~Returns(query) BY <1>2, <1>3, <1>4, <2>1
  <2>2. CASE Returns(query) /\ match # NoMatch
    <3>1. Decoded(columns, match) = {} BY <2>2 DEF Decoded
    <3> QED BY <1>2, <1>3, <1>4, <2>2, <3>1
  <2>3. CASE Returns(query) /\ match = NoMatch
    <3>1. match.ext = {} BY <2>3 DEF NoMatch
    <3>2. Decoded(columns, match) = {c \in Range(columns) : c.agg} BY <3>1 DEF Decoded
    <3>3. A = UNION {QueryImportOf(c.type) : c \in Range(columns)} BY <1>2, <2>3 DEF QueryImportsOf
    <3>4. B = UNION {QueryImportOf(c.type) : c \in {d \in Range(columns) : ~d.agg}} BY <1>3, <2>3
    <3>5. QueryImportOf("jsonb") = {"json"} BY DEF QueryImportOf, ImportOf
    <3>6. \A p : p \in A <=> \E c \in Range(columns) : p \in QueryImportOf(c.type) BY <3>3
    <3>7. \A p : p \in B <=> \E c \in Range(columns) : ~c.agg /\ p \in QueryImportOf(c.type) BY <3>4
    <3>8. \A p : p \in J <=> p = "json" /\ \E c \in Range(columns) : c.agg BY <1>4, <2>3, <3>2
    <3>9. \A c \in Range(columns) : c.agg => QueryImportOf(c.type) = {"json"} BY <3>5
    <3> QED BY <3>6, <3>7, <3>8, <3>9
  <2> QED BY <2>1, <2>2, <2>3
<1> QED BY <1>5, <1>6, <1>7
-----------------------------------------------------------------------------
(* The functions and the queries. *)

\* A line of SQL whose column this is.
FromFile(c) == \E line \in SqlLines : c \in Range(line.computed)

\* A query with the columns the database says it has.
ColumnsFit(q) ==
  /\ q.columns \in Seq(Range(q.columns))
  /\ \A c \in Range(q.columns) : c.agg => FromFile(c)

Parsed    == ParseQueryContent(source)
TextOf(q) == QueryGo(q.query, q.columns, cmd.tables, cmd.seen, cmd.extensions)
FileOf(q) == BindingFile[q.query.name]

TablesListed == cmd.tables \in Seq(Tables) /\ Elements(cmd.tables) = Present(cmd.seen, Tables)

Described ==
  /\ cmd.queries = [i \in 1..Len(Parsed) |-> cmd.queries[i]]
  /\ \A i \in 1..Len(Parsed) : cmd.queries[i].query = Parsed[i] /\ ColumnsFit(cmd.queries[i])

\* Of the queries the first m are done.
Rest(m) ==
  /\ cmd.todo \in Seq(Range(cmd.queries))
  /\ Len(cmd.todo) = Len(cmd.queries) - m
  /\ \A k \in 1..(Len(cmd.queries) - m) : cmd.todo[k] = cmd.queries[m + k]

\* The file of query k is that of one of the first m, which has its name.
Written(k, m) ==
  \E l \in 1..m : /\ cmd.queries[l].query.name = cmd.queries[k].query.name
                  /\ bindings[FileOf(cmd.queries[k])] = TextOf(cmd.queries[l])

Writing == cmd.pc \in {"bindings", "writeBinding", "clean"} \/ (cmd.pc = "done" /\ cmd.queries # <<>>)

BindInv ==
  /\ source \in QueryFiles
  /\ cmd.pc \in Running \cup {"done"} => TablesListed
  /\ cmd.pc \in {"models", "writeModel"} => cmd.queries = <<>>
  /\ cmd.pc = "introspect" => cmd.queries = Parsed
  /\ cmd.pc \in {"querier", "bindings", "writeBinding", "clean", "done"} => Described
  /\ Writing => /\ bindings["querier"] = Querier
                /\ cmd.extensions = [t \in Tables |-> ExtensionFields(t)]
  /\ cmd.pc = "bindings" =>
       \E m \in 0..Len(cmd.queries) : Rest(m) /\ \A k \in 1..m : Written(k, m)
  /\ cmd.pc = "writeBinding" =>
       \E m \in 0..(Len(cmd.queries) - 1) :
         /\ Rest(m) /\ cmd.text = TextOf(cmd.queries[m + 1])
         /\ \A k \in 1..m : \/ cmd.queries[k].query.name = cmd.queries[m + 1].query.name
                            \/ Written(k, m)
  /\ (cmd.pc = "clean" \/ (cmd.pc = "done" /\ cmd.queries # <<>>)) =>
       \A k \in 1..Len(cmd.queries) : Written(k, Len(cmd.queries))
  /\ (cmd.pc = "done" /\ cmd.queries # <<>> /\ cmd.clean) =>
       \A f \in BindingFiles \ Generated : bindings[f] = NoFile

\* Users declare the fields there are.
ExtInv == \A f \in ModelFiles : mine[f].ext \in Seq(ExtFields)

LEMMA FileLines ==
  ASSUME LinesFit, source \in QueryFiles
  PROVE  /\ LinesOK(source)
         /\ \A i \in Annotations : source[i].name \in DOMAIN BindingFile
         /\ \A line \in Elements(source) : line.kind = "sql" => line \in SqlLines
<1>1. source \in Seq(Range(source)) BY SourcesAssumption
<1>a. PICK R : R = Range(source) OBVIOUS
<1>2. PICK n \in Nat : n = Len(source) /\ R = Range(source) BY <1>1, <1>a
<1>3. source \in Seq(R) BY <1>1, <1>2
<1>4. DOMAIN source = 1..n /\ source = [i \in 1..n |-> source[i]] BY <1>2, <1>3
<1>5. \A i \in 1..n : source[i] \in R BY <1>2, <1>3
<1>6. \A line \in R : /\ line.kind \in {"name", "comment", "sql"}
                      /\ line.kind = "name" => line.name \in DOMAIN BindingFile
  BY <1>2, SourcesAssumption DEF LinesFit
<1>7. LinesOK(source)
  <2>1. \A i \in 1..n : source[i].kind \in {"name", "comment", "sql"} BY <1>5, <1>6
  <2> QED BY <1>2, <1>4, <2>1 DEF LinesOK
<1>8. \A i \in Annotations : source[i].name \in DOMAIN BindingFile
  BY <1>4, <1>5, <1>6 DEF Annotations
<1>9. ASSUME NEW line \in Elements(source), line.kind = "sql" PROVE line \in SqlLines
  <2>1. line \in R BY <1>2, <1>5 DEF Elements
  <2>2. R \in {Range(lines) : lines \in QueryFiles} BY <1>2
  <2>3. line \in UNION {Range(lines) : lines \in QueryFiles} BY <2>1, <2>2
  <2> QED BY <1>9, <2>3 DEF SqlLines
<1> QED BY <1>7, <1>8, <1>9

\* The SQL of an annotation is lines of SQL.
LEMMA SqlType ==
  ASSUME LinesFit, source \in QueryFiles, NEW i \in Annotations
  PROVE  SqlOf(i) \in Seq(SqlLines)
<1>1. LinesOK(source) BY FileLines
<1>2. /\ Annotations \subseteq 1..Len(source) /\ Len(source) \in Nat
      /\ \A j \in Annotations : j \in Nat
  BY <1>1, LinesAre
<1>3. PICK later : later = {j \in Annotations : j > i} OBVIOUS
<1>4. PICK end : end = IF later = {} THEN Len(source) ELSE Min(later) - 1 OBVIOUS
<1>5. SqlOf(i) = Between(source, i, end) BY <1>3, <1>4 DEF SqlOf, Between
<1>6. end \in i..Len(source)
  <2>1. CASE later = {} BY <1>2, <1>4, <2>1
  <2>2. CASE later # {}
    <3>1. later \in SUBSET Nat BY <1>2, <1>3
    <3>2. \E x \in later : \A y \in later : x <= y BY <2>2, <3>1, Least
    <3>3. Min(later) \in later BY <3>2 DEF Min
    <3>4. Min(later) \in 1..Len(source) /\ Min(later) > i BY <1>2, <1>3, <3>3
    <3> QED BY <1>2, <1>4, <2>2, <3>4
  <2> QED BY <2>1, <2>2
<1>7. i \in 1..Len(source) BY <1>2
<1>8. PICK E : E = {line \in Elements(source) : line.kind = "sql"} OBVIOUS
<1>9. SqlOf(i) \in Seq(E) BY <1>1, <1>5, <1>6, <1>7, <1>8, BetweenIs
<1>10. E \subseteq SqlLines BY <1>8, FileLines
<1>11. \A l \in Seq(E) : l \in Seq(SqlLines) BY <1>10
<1> QED BY <1>9, <1>11

\* What the parser has read.
LEMMA ParsedAre ==
  ASSUME LinesFit, source \in QueryFiles
  PROVE  /\ Parsed \in Seq(AllQueries) /\ Elements(Parsed) = AllQueries
         /\ \A q \in AllQueries : /\ q.name \in DOMAIN BindingFile
                                   /\ q.sql \in Seq(SqlLines) /\ q.sql # <<>>
<1>1. Parsed \in Seq(AllQueries) /\ Elements(Parsed) = AllQueries BY FileLines, ParsedIs DEF Parsed
<1>2. ASSUME NEW q \in AllQueries
      PROVE  q.name \in DOMAIN BindingFile /\ q.sql \in Seq(SqlLines) /\ q.sql # <<>>
  <2>1. PICK i \in Annotations : SqlOf(i) # <<>> /\ q = QueryAt(i) BY DEF AllQueries
  <2>2. q.name = source[i].name /\ q.sql = SqlOf(i) BY <2>1 DEF QueryAt
  <2>3. source[i].name \in DOMAIN BindingFile BY FileLines
  <2>4. SqlOf(i) \in Seq(SqlLines) BY SqlType
  <2> QED BY <2>1, <2>2, <2>3, <2>4
<1> QED BY <1>1, <1>2

LEMMA DescribedAre ==
  ASSUME LinesFit, source \in QueryFiles, Described
  PROVE  /\ Len(cmd.queries) = Len(Parsed) /\ Len(Parsed) \in Nat
         /\ cmd.queries \in Seq(Range(cmd.queries)) /\ DOMAIN cmd.queries = 1..Len(Parsed)
         /\ \A i \in 1..Len(Parsed) :
              /\ cmd.queries[i].query \in AllQueries
              /\ cmd.queries[i].query.name \in DOMAIN BindingFile
              /\ FileOf(cmd.queries[i]) \in BindingFiles
              /\ FileOf(cmd.queries[i]) # "querier"
<1>1. PICK n \in Nat : n = Len(Parsed) BY ParsedAre
<1>2. PICK queries, R : queries = cmd.queries /\ R = Range(queries) OBVIOUS
<1>3. queries = [i \in 1..n |-> queries[i]] BY <1>1, <1>2 DEF Described
<1>4. DOMAIN queries = 1..n BY <1>3
<1>5. queries \in [1..n -> R] BY <1>2, <1>3, <1>4 DEF Range
<1>6. queries \in Seq(R) /\ Len(queries) = n BY <1>5, FunctionIsList
<1>7. ASSUME NEW i \in 1..n
      PROVE  /\ queries[i].query \in AllQueries
             /\ queries[i].query.name \in DOMAIN BindingFile
             /\ FileOf(queries[i]) \in BindingFiles /\ FileOf(queries[i]) # "querier"
  <2>1. queries[i].query = Parsed[i] BY <1>1, <1>2 DEF Described
  <2>2. Parsed[i] \in AllQueries
    <3>1. Parsed \in Seq(AllQueries) BY ParsedAre
    <3> QED BY <1>1, <3>1
  <2>3. queries[i].query.name \in DOMAIN BindingFile BY <2>1, <2>2, ParsedAre
  <2>4. FileOf(queries[i]) \in Range(BindingFile) BY <2>3 DEF FileOf, Range
  <2> QED BY <2>1, <2>2, <2>3, <2>4, NamesAssumption DEF BindingFiles
<1> QED BY <1>1, <1>2, <1>4, <1>6, <1>7

\* Two queries with different names have different files.
LEMMA FilesDiffer ==
  ASSUME FilesApart, NEW p, NEW q, p.query.name \in DOMAIN BindingFile,
         q.query.name \in DOMAIN BindingFile, FileOf(p) = FileOf(q)
  PROVE  p.query.name = q.query.name
BY DEF FilesApart, IsInjective, FileOf
-----------------------------------------------------------------------------
LEMMA InitBinds == Init => BindInv /\ ExtInv
<1> SUFFICES ASSUME Init PROVE BindInv /\ ExtInv OBVIOUS
<1>1. PICK start \in Starts : source = start.source BY DEF Init
<1>2. source \in QueryFiles BY <1>1 DEF QueryFiles
<1>3. cmd.pc = "idle" BY DEF Init, NoCommand
<1>4. mine = [f \in ModelFiles |-> Nothing] BY DEF Init
<1>5. \A f \in ModelFiles : mine[f].ext = <<>> BY <1>4 DEF Nothing
<1>6. <<>> \in Seq(ExtFields) OBVIOUS
<1> QED BY <1>2, <1>3, <1>5, <1>6 DEF BindInv, ExtInv, Running, Writing

\* No command runs, or one that has failed.
LEMMA RestingBinds ==
  ASSUME cmd' \in {NoCommand, Failed}, source' \in QueryFiles PROVE BindInv'
<1>1. cmd'.pc \in {"idle", "failed"} BY DEF NoCommand, Failed
<1> QED BY <1>1 DEF BindInv, Running, Writing

LEMMA StartBinds == ASSUME BindInv, StartGenerate PROVE BindInv'
<1> DEFINE enums == Present(schema, Enums)
           comps == Present(schema, Composites)
           tabs  == Present(schema, Tables)
<1>1. PICK tables \in SetToSeqs(tabs) :
        cmd' = [NoCommand EXCEPT !.pc = "models", !.seen = schema, !.tables = tables,
                                 !.todo = SetToSeq(enums) \o SetToSeq(comps) \o tables]
  BY DEF StartGenerate
<1>2. source' = source BY DEF StartGenerate
<1>3. cmd'.pc = "models" /\ cmd'.seen = schema /\ cmd'.tables = tables /\ cmd'.queries = <<>>
  BY <1>1 DEF NoCommand
<1>4. PICK C : C = tabs OBVIOUS
<1>5. IsFiniteSet(C) /\ C \subseteq Tables
  <2>1. C \subseteq Tables /\ C \subseteq ModelObjects BY <1>4 DEF Present, ModelObjects
  <2> QED BY <2>1, NamesAssumption, FS_Subset
<1>6. tables \in Seq(C) /\ Elements(tables) = C BY <1>1, <1>4, <1>5, SeqsListed
<1>7. \A l \in Seq(C) : l \in Seq(Tables) BY <1>5
<1>8. TablesListed' BY <1>3, <1>4, <1>6, <1>7 DEF TablesListed
<1>9. source' \in QueryFiles BY <1>2 DEF BindInv
<1> QED BY <1>3, <1>8, <1>9 DEF BindInv, Writing

LEMMA ModelBinds ==
  ASSUME BindInv, OwnInv, SkipTable \/ MergeModel \/ WriteModel PROVE BindInv'
<1>1. DOMAIN cmd = Fields BY DEF OwnInv, CommandInv, Fields
<1>2. source' = source /\ cmd.pc \in {"models", "writeModel"}
  BY DEF SkipTable, MergeModel, WriteModel
<1>3. \/ cmd' = Failed
      \/ \E text : cmd' = [cmd EXCEPT !.pc = "writeModel", !.text = text]
      \/ \E todo : cmd' = [cmd EXCEPT !.pc = "models", !.todo = todo, !.text = NoFile]
      \/ cmd.pc = "models" /\ \E todo : cmd' = [cmd EXCEPT !.todo = todo]
  <2>3. CASE SkipTable BY <2>3, Zenon DEF SkipTable
  <2>1. CASE MergeModel BY <2>1, Zenon DEF MergeModel
  <2>2. CASE WriteModel BY <2>2, Zenon DEF WriteModel
  <2> QED BY <2>1, <2>2, <2>3
<1>4. source' \in QueryFiles BY <1>2 DEF BindInv
<1>5. CASE cmd' = Failed BY <1>4, <1>5, RestingBinds
<1>6. CASE cmd' # Failed
  <2>1. /\ cmd'.pc \in {"models", "writeModel"} /\ cmd'.tables = cmd.tables
        /\ cmd'.seen = cmd.seen /\ cmd'.queries = cmd.queries
    BY <1>1, <1>3, <1>6 DEF Fields
  <2>2. TablesListed /\ cmd.queries = <<>> BY <1>2 DEF BindInv, Running
  <2>3. TablesListed' BY <2>1, <2>2 DEF TablesListed
  <2> QED BY <1>4, <2>1, <2>2, <2>3 DEF BindInv, Writing
<1> QED BY <1>5, <1>6

LEMMA ReadBinds == ASSUME LinesFit, BindInv, OwnInv, ReadQueries PROVE BindInv'
<1>1. DOMAIN cmd = Fields BY DEF OwnInv, CommandInv, Fields
<1>2. source' = source /\ cmd.pc = "models" BY DEF ReadQueries
<1>3. \/ Parsed = <<>> /\ \E clean : cmd' = [cmd EXCEPT !.pc = "done", !.clean = clean]
      \/ cmd' = [cmd EXCEPT !.pc = "introspect", !.queries = Parsed]
  BY Zenon DEF ReadQueries, Parsed
<1>4. cmd'.tables = cmd.tables /\ cmd'.seen = cmd.seen /\ cmd'.pc \in {"done", "introspect"}
  BY <1>1, <1>3 DEF Fields
<1>5. TablesListed /\ cmd.queries = <<>> /\ source \in QueryFiles BY <1>2 DEF BindInv, Running
<1>6. TablesListed' BY <1>4, <1>5 DEF TablesListed
<1>7. Parsed' = Parsed BY <1>2 DEF Parsed
<1>8. CASE cmd'.pc = "introspect"
  <2>1. cmd'.queries = Parsed BY <1>1, <1>3, <1>8 DEF Fields
  <2> QED BY <1>2, <1>5, <1>6, <1>7, <1>8, <2>1 DEF BindInv, Writing
<1>9. CASE cmd'.pc = "done"
  <2>1. cmd'.queries = <<>> /\ Parsed = <<>> BY <1>1, <1>3, <1>5, <1>9 DEF Fields
  <2>2. Described'
    <3>1. Parsed' = <<>> BY <1>7, <2>1
    <3>2. 1..0 = {} /\ Len(<<>>) = 0 OBVIOUS
    <3>3. <<>> = [i \in 1..0 |-> cmd'.queries[i]] BY <3>2
    <3> QED BY <2>1, <3>1, <3>2, <3>3 DEF Described
  <2> QED BY <1>2, <1>5, <1>6, <1>9, <2>1, <2>2 DEF BindInv, Writing
<1> QED BY <1>4, <1>8, <1>9

\* The columns the database gives a query of the file.
LEMMA AnswerFits ==
  ASSUME LinesFit, source \in QueryFiles, TypeInv, NEW q \in AllQueries,
         Prepare(q.sql, schema).ok, NEW r,
         r = [query |-> q, columns |-> Prepare(q.sql, schema).columns]
  PROVE  ColumnsFit(r)
<1>1. PICK sql : sql = q.sql OBVIOUS
<1>2. sql \in Seq(SqlLines) /\ sql # <<>> BY <1>1, ParsedAre
<1>3. PICK first : first = sql[1] OBVIOUS
<1>4. first \in SqlLines /\ 1 \in DOMAIN sql BY <1>2, <1>3
<1>5. PICK lines \in QueryFiles : first \in Range(lines) /\ first.kind = "sql"
  BY <1>4 DEF SqlLines
<1>6. first.starts
  <2>1. Prepare(sql, schema) # QueryFailed BY <1>1 DEF QueryFailed
  <2>2. {i \in DOMAIN sql : sql[i].starts} = {1} BY <2>1 DEF Prepare
  <2> QED BY <1>3, <2>2
<1>7. first.from \in Tables /\ first.computed \in Seq([name : STRING, type : PgTypes, agg : BOOLEAN])
  BY <1>5, <1>6, SourcesAssumption
<1>8. PICK table : table = schema[first.from] OBVIOUS
<1>9. table \in Seq(Columns)
  <2>1. first.from \in ModelObjects BY <1>7 DEF ModelObjects
  <2>2. table \in Shapes[first.from] \cup {Absent} BY <1>8, <2>1 DEF TypeInv, GenerateTypeOK
  <2>3. Shapes[first.from] \subseteq Seq(Columns) BY <1>7, ShapesAssumption
  <2>4. <<>> \in Seq(Columns) OBVIOUS
  <2> QED BY <2>2, <2>3, <2>4 DEF Absent
<1>10. PICK columns : columns = Prepare(sql, schema).columns OBVIOUS
<1>11. /\ columns \in Seq(Range(columns))
       /\ \A c \in Range(columns) : ~c.agg \/ c \in Range(first.computed)
  <2>1. PICK S : S = [name : STRING, type : PgTypes, agg : BOOLEAN] OBVIOUS
  <2>2. table = schema[sql[1].from] /\ sql[1].computed \in Seq(S) BY <1>3, <1>7, <1>8, <2>1
  <2>3. Prepare(sql, schema).ok BY <1>1
  <2> QED BY <1>3, <1>9, <1>10, <2>2, <2>3, PreparedIs
<1>12. r.columns = columns BY <1>1, <1>10
<1> QED BY <1>4, <1>11, <1>12 DEF ColumnsFit, FromFile

LEMMA IntrospectBinds ==
  ASSUME LinesFit, BindInv, TypeInv, OwnInv, IntrospectQueries PROVE BindInv'
<1>1. DOMAIN cmd = Fields BY DEF OwnInv, CommandInv, Fields
<1>2. source' = source /\ cmd.pc = "introspect" BY DEF IntrospectQueries
<1>3. source \in QueryFiles /\ TablesListed /\ cmd.queries = Parsed BY <1>2 DEF BindInv, Running
<1>4. source' \in QueryFiles BY <1>2, <1>3
<1>5. PICK answers : answers = [i \in DOMAIN cmd.queries |-> Prepare(cmd.queries[i].sql, schema)]
  OBVIOUS
<1>6. \/ cmd' = Failed
      \/ /\ \A i \in DOMAIN answers : answers[i].ok
         /\ cmd' = [cmd EXCEPT !.pc = "querier", !.queries =
                      [i \in DOMAIN @ |-> [query |-> @[i], columns |-> answers[i].columns]]]
  BY <1>5, Zenon DEF IntrospectQueries
<1>7. CASE cmd' = Failed BY <1>4, <1>7, RestingBinds
<1>8. CASE cmd' # Failed
  <2>1. PICK n \in Nat : n = Len(Parsed) /\ DOMAIN Parsed = 1..n
    <3>1. Parsed \in Seq(AllQueries) BY <1>3, ParsedAre
    <3> QED BY <3>1
  <2>2. PICK queries :
          queries = [i \in 1..n |-> [query |-> Parsed[i], columns |-> answers[i].columns]] OBVIOUS
  <2>3. /\ cmd'.pc = "querier" /\ cmd'.queries = queries
        /\ cmd'.tables = cmd.tables /\ cmd'.seen = cmd.seen
    <3>1. [i \in DOMAIN cmd.queries |-> [query |-> cmd.queries[i], columns |-> answers[i].columns]]
            = queries
      BY <1>3, <2>1, <2>2
    <3>2. cmd' = [cmd EXCEPT !.pc = "querier", !.queries = queries]
      <4>1. cmd' = [cmd EXCEPT !.pc = "querier", !.queries =
                      [i \in DOMAIN cmd.queries |-> [query |-> cmd.queries[i], columns |-> answers[i].columns]]]
        BY <1>1, <1>6, <1>8 DEF Fields
      <4> QED BY <3>1, <4>1, Zenon
    <3> QED BY <1>1, <3>2 DEF Fields
  <2>4. ASSUME NEW i \in 1..n PROVE queries[i].query = Parsed[i] /\ ColumnsFit(queries[i])
    <3>1. PICK q \in AllQueries : q = Parsed[i]
      <4>1. Parsed \in Seq(AllQueries) BY <1>3, ParsedAre
      <4> QED BY <2>1, <4>1
    <3>2. answers[i] = Prepare(q.sql, schema) /\ i \in DOMAIN answers BY <1>3, <1>5, <2>1, <3>1
    <3>3. queries[i] = [query |-> q, columns |-> Prepare(q.sql, schema).columns]
      BY <2>2, <3>1, <3>2
    <3>4. Prepare(q.sql, schema).ok BY <1>6, <1>8, <3>2
    <3>5. ColumnsFit(queries[i]) BY <1>3, <3>3, <3>4, AnswerFits
    <3> QED BY <3>1, <3>3, <3>5
  <2>5. Parsed' = Parsed BY <1>2 DEF Parsed
  <2>6. queries = [i \in 1..n |-> queries[i]] BY <2>2
  <2>7. Described' BY <2>1, <2>3, <2>4, <2>5, <2>6 DEF Described, ColumnsFit
  <2>8. TablesListed' BY <1>3, <2>3 DEF TablesListed
  <2> QED BY <1>4, <2>3, <2>7, <2>8 DEF BindInv, Writing
<1> QED BY <1>7, <1>8

LEMMA BindStays ==
  ASSUME BindInv, UNCHANGED <<source, models, bindings, cmd>> PROVE BindInv'
<1>1. TablesListed => TablesListed' BY DEF TablesListed
<1>2. Parsed' = Parsed BY DEF Parsed
<1>3. Described => Described' BY <1>2 DEF Described, ColumnsFit
<1>4. \A t : ExtensionFields(t)' = ExtensionFields(t) BY DEF ExtensionFields
<1>5. \A m : Rest(m)' <=> Rest(m) BY DEF Rest
<1>6. \A q : TextOf(q)' = TextOf(q) BY DEF TextOf
<1>7. \A k, m : Written(k, m)' <=> Written(k, m)
  BY DEF Written, TextOf, FileOf
<1>8. Writing' <=> Writing BY DEF Writing
<1>9. Generated' = Generated BY DEF Generated
<1> QED BY <1>1, <1>2, <1>3, <1>4, <1>5, <1>6, <1>7, <1>8, <1>9 DEF BindInv

\* What a step leaves of the queries and the tables.
LEMMA QueriesStay ==
  ASSUME source' = source, cmd'.queries = cmd.queries, cmd'.tables = cmd.tables, cmd'.seen = cmd.seen
  PROVE  /\ Described => Described'
         /\ TablesListed => TablesListed'
<1>1. Parsed' = Parsed BY DEF Parsed
<1> QED BY <1>1 DEF Described, ColumnsFit, TablesListed

LEMMA TextsStay ==
  ASSUME cmd'.tables = cmd.tables, cmd'.seen = cmd.seen, cmd'.extensions = cmd.extensions, models' = models
  PROVE  /\ \A q : TextOf(q)' = TextOf(q)
         /\ cmd.extensions = [t \in Tables |-> ExtensionFields(t)] =>
              cmd'.extensions = [t \in Tables |-> ExtensionFields(t)']
<1>1. \A t : ExtensionFields(t)' = ExtensionFields(t) BY DEF ExtensionFields
<1> QED BY <1>1 DEF TextOf

LEMMA QuerierBinds == ASSUME LinesFit, BindInv, TypeInv, OwnInv, WriteQuerier PROVE BindInv'
<1>1. DOMAIN cmd = Fields BY DEF OwnInv, CommandInv, Fields
<1>2. UNCHANGED <<source, models>> /\ cmd.pc = "querier" BY DEF WriteQuerier
<1>3. source \in QueryFiles /\ TablesListed /\ Described BY <1>2 DEF BindInv, Running
<1>4. CASE cmd' = cmd
  <2>1. Described' /\ TablesListed' BY <1>2, <1>3, <1>4, QueriesStay
  <2>2. cmd'.pc = "querier" BY <1>2, <1>4
  <2> QED BY <1>2, <1>3, <2>1, <2>2 DEF BindInv, Writing
<1>5. CASE cmd' # cmd
  <2>1. PICK extensions : extensions = [t \in Tables |-> ExtensionFields(t)] OBVIOUS
  <2>2. /\ bindings' = [bindings EXCEPT !["querier"] = Querier]
        /\ cmd' = [cmd EXCEPT !.pc = "bindings", !.todo = cmd.queries, !.extensions = extensions]
    BY <1>5, <2>1, Zenon DEF WriteQuerier
  <2>3. /\ cmd'.pc = "bindings" /\ cmd'.todo = cmd.queries /\ cmd'.queries = cmd.queries
        /\ cmd'.tables = cmd.tables /\ cmd'.seen = cmd.seen /\ cmd'.extensions = extensions
    BY <1>1, <2>2 DEF Fields
  <2>4. Described' /\ TablesListed' BY <1>2, <1>3, <2>3, QueriesStay
  <2>5. bindings'["querier"] = Querier
    <3>1. "querier" \in DOMAIN bindings BY DEF TypeInv, BindingFiles
    <3> QED BY <2>2, <3>1
  <2>6. \A t : ExtensionFields(t)' = ExtensionFields(t) BY <1>2 DEF ExtensionFields
  <2>7. cmd'.extensions = [t \in Tables |-> ExtensionFields(t)'] BY <2>1, <2>3, <2>6
  <2>8. Rest(0)'
    <3>1. PICK queries : queries = cmd.queries OBVIOUS
    <3>2. queries \in Seq(Range(queries)) BY <1>3, <3>1, DescribedAre
    <3>3. Len(queries) \in Nat BY <3>2
    <3> QED BY <2>3, <3>1, <3>2, <3>3 DEF Rest
  <2>9. PICK n \in Nat : n = Len(cmd.queries) BY <1>3, DescribedAre
  <2>10. 0 \in 0..n /\ 1..0 = {} BY <2>9
  <2>11. \E m \in 0..Len(cmd.queries) : Rest(m)' /\ \A k \in 1..m : Written(k, m)'
    <3>1. \A k \in 1..0 : Written(k, 0)' BY <2>10
    <3> QED BY <2>8, <2>9, <2>10, <3>1
  <2> QED BY <1>2, <1>3, <2>3, <2>4, <2>5, <2>7, <2>11 DEF BindInv, Writing
<1> QED BY <1>4, <1>5

LEMMA OpenBinds ==
  ASSUME FilesApart, LinesFit, BindInv, TypeInv, OwnInv, OpenBinding PROVE BindInv'
<1>1. DOMAIN cmd = Fields BY DEF OwnInv, CommandInv, Fields
<1>2. UNCHANGED <<source, models>> /\ cmd.pc = "bindings" /\ cmd.todo # <<>> BY DEF OpenBinding
<1>3. /\ source \in QueryFiles /\ TablesListed /\ Described
      /\ bindings["querier"] = Querier /\ cmd.extensions = [t \in Tables |-> ExtensionFields(t)]
  BY <1>2 DEF BindInv, Running, Writing
<1>4. PICK m \in 0..Len(cmd.queries) : Rest(m) /\ \A k \in 1..m : Written(k, m)
  BY <1>2 DEF BindInv
<1>5. PICK n \in Nat : n = Len(cmd.queries) BY <1>3, DescribedAre
<1>6. PICK queries, todo : queries = cmd.queries /\ todo = cmd.todo OBVIOUS
<1>7. /\ \A k \in 1..n : /\ queries[k].query.name \in DOMAIN BindingFile
                         /\ FileOf(queries[k]) \in BindingFiles /\ FileOf(queries[k]) # "querier"
  BY <1>3, <1>5, <1>6, DescribedAre
<1>8. m \in 0..(n - 1) /\ Head(todo) = queries[m + 1]
  <2>1. todo \in Seq(Range(queries)) /\ Len(todo) = n - m /\ \A k \in 1..(n - m) : todo[k] = queries[m + k]
    BY <1>4, <1>5, <1>6 DEF Rest
  <2>2. Len(todo) > 0 /\ Head(todo) = todo[1] BY <1>2, <1>6, <2>1
  <2> QED BY <1>4, <1>5, <2>1, <2>2
<1>9. m + 1 \in 1..n BY <1>8
<1>10. PICK q : q = queries[m + 1] OBVIOUS
<1>11. /\ bindings' = [bindings EXCEPT ![FileOf(q)] = Torn]
       /\ cmd' = [cmd EXCEPT !.pc = "writeBinding", !.text = TextOf(q)]
  BY <1>6, <1>8, <1>10 DEF OpenBinding, FileOf, TextOf
<1>12. /\ cmd'.pc = "writeBinding" /\ cmd'.text = TextOf(q) /\ cmd'.todo = todo
       /\ cmd'.queries = queries /\ cmd'.tables = cmd.tables /\ cmd'.seen = cmd.seen
       /\ cmd'.extensions = cmd.extensions
  BY <1>1, <1>6, <1>11 DEF Fields
<1>13. Described' /\ TablesListed' BY <1>2, <1>3, <1>6, <1>12, QueriesStay
<1>14. (\A p : TextOf(p)' = TextOf(p)) /\ cmd'.extensions = [t \in Tables |-> ExtensionFields(t)']
  BY <1>2, <1>3, <1>12, TextsStay
<1>15. \A f \in BindingFiles : f # FileOf(q) => bindings'[f] = bindings[f]
  BY <1>11 DEF TypeInv
<1>16. bindings'["querier"] = Querier
  <2>1. "querier" \in BindingFiles BY DEF BindingFiles
  <2> QED BY <1>3, <1>7, <1>9, <1>10, <1>15, <2>1
<1>17. Rest(m)' BY <1>4, <1>6, <1>12 DEF Rest
<1>18. ASSUME NEW k \in 1..m, queries[k].query.name # q.query.name PROVE Written(k, m)'
  <2>1. k \in 1..n BY <1>8
  <2>2. FileOf(queries[k]) # FileOf(q) BY <1>7, <1>9, <1>10, <1>18, <2>1, FilesDiffer
  <2>3. PICK l \in 1..m : /\ queries[l].query.name = queries[k].query.name
                          /\ bindings[FileOf(queries[k])] = TextOf(queries[l])
    BY <1>4, <1>6 DEF Written
  <2>4. bindings'[FileOf(queries[k])] = TextOf(queries[l]) BY <1>7, <1>15, <2>1, <2>2, <2>3
  <2>5. TextOf(queries[l]) = TextOf(queries[l])' BY <1>14
  <2>6. bindings'[FileOf(queries[k])] = TextOf(queries[l])' BY <2>4, <2>5
  <2> QED BY <1>12, <2>3, <2>6 DEF Written, FileOf, TextOf
<1>19. /\ \A k \in 1..m : \/ cmd'.queries[k].query.name = cmd'.queries[m + 1].query.name
                          \/ Written(k, m)'
       /\ cmd'.text = TextOf(cmd.queries[m + 1])'
  <2>1. TextOf(queries[m + 1])' = TextOf(cmd.queries[m + 1])' BY <1>6, <1>12 DEF TextOf
  <2>2. cmd'.text = TextOf(queries[m + 1])' BY <1>10, <1>12, <1>14
  <2> QED BY <1>10, <1>12, <1>18, <2>1, <2>2
<1> QED BY <1>2, <1>3, <1>5, <1>6, <1>8, <1>12, <1>13, <1>14, <1>16, <1>17, <1>19 DEF BindInv, Writing

LEMMA WriteBinds ==
  ASSUME FilesApart, LinesFit, BindInv, TypeInv, OwnInv, WriteBinding PROVE BindInv'
<1>1. DOMAIN cmd = Fields BY DEF OwnInv, CommandInv, Fields
<1>2. UNCHANGED <<source, models>> /\ cmd.pc = "writeBinding" BY DEF WriteBinding
<1>3. /\ source \in QueryFiles /\ TablesListed /\ Described
      /\ bindings["querier"] = Querier /\ cmd.extensions = [t \in Tables |-> ExtensionFields(t)]
  BY <1>2 DEF BindInv, Running, Writing
<1>4. PICK m \in 0..(Len(cmd.queries) - 1) :
        /\ Rest(m) /\ cmd.text = TextOf(cmd.queries[m + 1])
        /\ \A k \in 1..m : \/ cmd.queries[k].query.name = cmd.queries[m + 1].query.name
                           \/ Written(k, m)
  BY <1>2 DEF BindInv
<1>5. PICK n \in Nat : n = Len(cmd.queries) BY <1>3, DescribedAre
<1>6. PICK queries, todo : queries = cmd.queries /\ todo = cmd.todo OBVIOUS
<1>7. /\ \A k \in 1..n : /\ queries[k].query.name \in DOMAIN BindingFile
                         /\ FileOf(queries[k]) \in BindingFiles /\ FileOf(queries[k]) # "querier"
  BY <1>3, <1>5, <1>6, DescribedAre
<1>8. m \in 0..(n - 1) /\ m + 1 \in 1..n BY <1>4, <1>5
<1>9. PICK q : q = queries[m + 1] OBVIOUS
<1>10. PICK text : text = TextOf(q) OBVIOUS
<1>11. text.query = q.query.name BY <1>10 DEF TextOf, QueryGo
<1>12. cmd.text = text BY <1>4, <1>6, <1>9, <1>10
<1>13. /\ bindings' = [bindings EXCEPT ![FileOf(q)] = text]
       /\ cmd' = [cmd EXCEPT !.pc = "bindings", !.todo = Tail(todo), !.text = NoFile]
  <2>1. /\ bindings' = [bindings EXCEPT ![BindingFile[cmd.text.query]] = cmd.text]
        /\ cmd' = [cmd EXCEPT !.pc = "bindings", !.todo = Tail(cmd.todo), !.text = NoFile]
    BY DEF WriteBinding
  <2>2. BindingFile[cmd.text.query] = FileOf(q) BY <1>11, <1>12 DEF FileOf
  <2> QED BY <1>6, <1>12, <2>1, <2>2
<1>14. /\ cmd'.pc = "bindings" /\ cmd'.todo = Tail(todo)
       /\ cmd'.queries = queries /\ cmd'.tables = cmd.tables /\ cmd'.seen = cmd.seen
       /\ cmd'.extensions = cmd.extensions
  BY <1>1, <1>6, <1>13 DEF Fields
<1>15. Described' /\ TablesListed' BY <1>2, <1>3, <1>6, <1>14, QueriesStay
<1>16. (\A p : TextOf(p)' = TextOf(p)) /\ cmd'.extensions = [t \in Tables |-> ExtensionFields(t)']
  BY <1>2, <1>3, <1>14, TextsStay
<1>17. /\ bindings'[FileOf(q)] = text
       /\ \A f \in BindingFiles : f # FileOf(q) => bindings'[f] = bindings[f]
  BY <1>7, <1>8, <1>9, <1>13 DEF TypeInv
<1>18. bindings'["querier"] = Querier
  <2>1. "querier" \in BindingFiles BY DEF BindingFiles
  <2> QED BY <1>3, <1>7, <1>8, <1>9, <1>17, <2>1
<1>19. Rest(m + 1)'
  <2>1. PICK R : R = Range(queries) OBVIOUS
  <2>2. todo \in Seq(R) /\ Len(todo) = n - m /\ \A k \in 1..(n - m) : todo[k] = queries[m + k]
    BY <1>4, <1>5, <1>6, <2>1 DEF Rest
  <2>3. PICK rest : rest = Tail(todo) OBVIOUS
  <2>4. n - m \in Nat /\ n - m >= 1 BY <1>8
  <2>5. /\ rest \in Seq(R) /\ Len(rest) = (n - m) - 1
        /\ \A k \in 1..((n - m) - 1) : rest[k] = todo[k + 1]
    BY <2>2, <2>3, <2>4
  <2>6. (n - m) - 1 = n - (m + 1) BY <1>8
  <2>7. ASSUME NEW k \in 1..(n - (m + 1)) PROVE rest[k] = queries[(m + 1) + k]
    <3>1. k \in 1..((n - m) - 1) /\ k + 1 \in 1..(n - m) /\ m + (k + 1) = (m + 1) + k BY <1>8
    <3> QED BY <2>2, <2>5, <3>1
  <2> QED BY <1>5, <1>6, <1>14, <2>1, <2>3, <2>5, <2>6, <2>7 DEF Rest
<1>20. ASSUME NEW k \in 1..(m + 1) PROVE Written(k, m + 1)'
  <2>1. k \in 1..n BY <1>8
  <2>2. PICK l \in 1..(m + 1) : /\ queries[l].query.name = queries[k].query.name
                                /\ bindings'[FileOf(queries[k])] = TextOf(queries[l])
    <3>1. CASE queries[k].query.name = q.query.name
      <4>1. FileOf(queries[k]) = FileOf(q) BY <3>1 DEF FileOf
      <4>2. m + 1 \in 1..(m + 1) BY <1>8
      <4> QED BY <1>9, <1>10, <1>17, <3>1, <4>1, <4>2
    <3>2. CASE queries[k].query.name # q.query.name
      <4>1. k \in 1..m
        <5>1. k # m + 1 BY <1>9, <3>2
        <5> QED BY <1>8, <5>1
      <4>2. Written(k, m) BY <1>4, <1>6, <1>9, <3>2, <4>1
      <4>3. PICK l \in 1..m : /\ queries[l].query.name = queries[k].query.name
                              /\ bindings[FileOf(queries[k])] = TextOf(queries[l])
        BY <1>6, <4>2 DEF Written
      <4>4. FileOf(queries[k]) # FileOf(q) BY <1>7, <1>8, <1>9, <2>1, <3>2, FilesDiffer
      <4>5. l \in 1..(m + 1) BY <1>8
      <4> QED BY <1>7, <1>17, <2>1, <4>3, <4>4, <4>5
    <3> QED BY <3>1, <3>2
  <2>3. TextOf(queries[l]) = TextOf(queries[l])' BY <1>16
  <2>4. bindings'[FileOf(queries[k])] = TextOf(queries[l])' BY <2>2, <2>3
  <2> QED BY <1>14, <2>2, <2>4 DEF Written, FileOf, TextOf
<1>21. m + 1 \in 0..n BY <1>8
<1> QED BY <1>2, <1>3, <1>5, <1>6, <1>14, <1>15, <1>16, <1>18, <1>19, <1>20, <1>21 DEF BindInv, Writing

LEMMA FunctionsStay ==
  ASSUME source' = source, models' = models, cmd'.queries = cmd.queries, cmd'.tables = cmd.tables,
         cmd'.seen = cmd.seen, cmd'.extensions = cmd.extensions,
         NEW k, NEW n, Written(k, n),
         bindings'[FileOf(cmd.queries[k])] = bindings[FileOf(cmd.queries[k])]
  PROVE  Written(k, n)'
<1>1. PICK queries : queries = cmd.queries OBVIOUS
<1>2. PICK l \in 1..n : /\ queries[l].query.name = queries[k].query.name
                        /\ bindings[FileOf(queries[k])] = TextOf(queries[l])
  BY <1>1 DEF Written
<1>3. TextOf(queries[l])' = TextOf(queries[l]) BY TextsStay
<1>4. bindings'[FileOf(queries[k])] = TextOf(queries[l])' BY <1>1, <1>2, <1>3
<1> QED BY <1>1, <1>2, <1>4 DEF Written, FileOf, TextOf

LEMMA WrittenBinds == ASSUME LinesFit, BindInv, OwnInv, BindingsWritten PROVE BindInv'
<1>1. DOMAIN cmd = Fields BY DEF OwnInv, CommandInv, Fields
<1>2. UNCHANGED <<source, models, bindings>> /\ cmd.pc = "bindings" /\ cmd.todo = <<>>
  BY DEF BindingsWritten
<1>3. /\ source \in QueryFiles /\ TablesListed /\ Described
      /\ bindings["querier"] = Querier /\ cmd.extensions = [t \in Tables |-> ExtensionFields(t)]
  BY <1>2 DEF BindInv, Running, Writing
<1>4. PICK m \in 0..Len(cmd.queries) : Rest(m) /\ \A k \in 1..m : Written(k, m)
  BY <1>2 DEF BindInv
<1>5. PICK n \in Nat : n = Len(cmd.queries) BY <1>3, DescribedAre
<1>6. m = n BY <1>2, <1>4, <1>5 DEF Rest
<1>7. PICK clean \in BOOLEAN :
        cmd' = [cmd EXCEPT !.pc = IF clean THEN "clean" ELSE "done", !.clean = clean]
  BY DEF BindingsWritten
<1>8. /\ cmd'.pc = IF clean THEN "clean" ELSE "done"
      /\ cmd'.clean = clean /\ cmd'.queries = cmd.queries /\ cmd'.tables = cmd.tables
      /\ cmd'.seen = cmd.seen /\ cmd'.extensions = cmd.extensions
  BY <1>1, <1>7 DEF Fields
<1>9. Described' /\ TablesListed' BY <1>2, <1>3, <1>8, QueriesStay
<1>10. cmd'.extensions = [t \in Tables |-> ExtensionFields(t)'] BY <1>2, <1>3, <1>8, TextsStay
<1>11. \A k \in 1..n : Written(k, n)' BY <1>2, <1>4, <1>6, <1>8, FunctionsStay
<1> QED BY <1>2, <1>3, <1>5, <1>8, <1>9, <1>10, <1>11 DEF BindInv, Writing

LEMMA CleanBinds == ASSUME LinesFit, BindInv, TypeInv, OwnInv, Clean PROVE BindInv'
<1>1. DOMAIN cmd = Fields BY DEF OwnInv, CommandInv, Fields
<1>2. UNCHANGED <<source, models>> /\ cmd.pc = "clean" BY DEF Clean
<1>3. /\ source \in QueryFiles /\ TablesListed /\ Described
      /\ bindings["querier"] = Querier /\ cmd.extensions = [t \in Tables |-> ExtensionFields(t)]
  BY <1>2 DEF BindInv, Running, Writing
<1>4. PICK n \in Nat : n = Len(cmd.queries) BY <1>3, DescribedAre
<1>5. \A k \in 1..n : Written(k, n) BY <1>2, <1>4 DEF BindInv
<1>6. /\ cmd'.queries = cmd.queries /\ cmd'.tables = cmd.tables
      /\ cmd'.seen = cmd.seen /\ cmd'.extensions = cmd.extensions
  <2>1. cmd' = [cmd EXCEPT !.pc = "done"] \/ cmd' = cmd BY DEF Clean
  <2> QED BY <1>1, <2>1 DEF Fields
<1>7. Described' /\ TablesListed' BY <1>2, <1>3, <1>6, QueriesStay
<1>8. cmd'.extensions = [t \in Tables |-> ExtensionFields(t)'] BY <1>2, <1>3, <1>6, TextsStay
<1>9. CASE cmd' # cmd
  <2>1. /\ {f \in BindingFiles \ Generated : bindings[f] # NoFile} = {}
        /\ cmd' = [cmd EXCEPT !.pc = "done"] /\ bindings' = bindings
    BY <1>9 DEF Clean
  <2>2. cmd'.pc = "done" BY <1>1, <2>1 DEF Fields
  <2>3. \A k \in 1..n : Written(k, n)' BY <1>2, <1>5, <1>6, <2>1, FunctionsStay
  <2>4. Generated' = Generated BY <1>6 DEF Generated
  <2>5. \A f \in BindingFiles \ Generated' : bindings'[f] = NoFile BY <2>1, <2>4
  <2> QED BY <1>2, <1>3, <1>4, <1>6, <1>7, <1>8, <2>1, <2>2, <2>3, <2>5 DEF BindInv, Writing
<1>10. CASE cmd' = cmd
  <2>1. PICK f \in BindingFiles \ Generated : bindings' = [bindings EXCEPT ![f] = NoFile]
    <3>1. cmd' # [cmd EXCEPT !.pc = "done"] BY <1>1, <1>2, <1>10 DEF Fields
    <3> QED BY <3>1 DEF Clean
  <2>2. cmd'.pc = "clean" BY <1>2, <1>10
  <2>3. \A g \in BindingFiles : g # f => bindings'[g] = bindings[g] BY <2>1 DEF TypeInv
  <2>4. bindings'["querier"] = Querier
    <3>1. "querier" \in BindingFiles /\ "querier" \in Generated BY DEF BindingFiles, Generated
    <3> QED BY <1>3, <2>1, <2>3, <3>1
  <2>5. ASSUME NEW k \in 1..n PROVE Written(k, n)'
    <3>1. PICK queries : queries = cmd.queries OBVIOUS
    <3>2. DOMAIN queries = 1..n /\ FileOf(queries[k]) \in BindingFiles
      BY <1>3, <1>4, <3>1, DescribedAre
    <3>3. queries[k] \in Range(queries) BY <3>2 DEF Range
    <3>4. FileOf(queries[k]) \in Generated BY <3>1, <3>3 DEF Generated, FileOf
    <3>5. bindings'[FileOf(queries[k])] = bindings[FileOf(queries[k])] BY <2>1, <2>3, <3>2, <3>4
    <3> QED BY <1>2, <1>5, <1>6, <3>1, <3>5, FunctionsStay
  <2> QED BY <1>2, <1>3, <1>4, <1>6, <1>7, <1>8, <2>2, <2>4, <2>5 DEF BindInv, Writing
<1> QED BY <1>9, <1>10

LEMMA UserBinds == ASSUME BindInv, User PROVE BindInv'
<1>1. \/ cmd' = NoCommand
      \/ UNCHANGED <<source, models, bindings, cmd>>
  BY DEF User, ChangeSchema, Extend, WithdrawField, Retag, Declare, DeclareConsts, DeleteModel,
         EditQueries, Save, Edited
<1>2. source' \in QueryFiles
  <2>1. source' = source \/ source' \in Sources
    BY DEF User, ChangeSchema, Extend, WithdrawField, Retag, Declare, DeclareConsts, DeleteModel,
           EditQueries, Save
  <2> QED BY <2>1 DEF BindInv, QueryFiles
<1> QED BY <1>1, <1>2, RestingBinds, BindStays

LEMMA StepBinds ==
  ASSUME FilesApart, LinesFit, BindInv, TypeInv, OwnInv, [Next]_vars PROVE BindInv'
<1>1. CASE UNCHANGED vars BY <1>1, BindStays DEF vars
<1>2. CASE Command
  BY <1>2, StartBinds, ModelBinds, ReadBinds, IntrospectBinds, QuerierBinds, OpenBinds, WriteBinds,
     WrittenBinds, CleanBinds DEF Command
<1>3. CASE Interrupt
  <2>1. cmd' = Failed /\ source' = source BY <1>3 DEF Interrupt
  <2>2. source \in QueryFiles BY DEF BindInv
  <2> QED BY <2>1, <2>2, RestingBinds
<1>4. CASE User BY <1>4, UserBinds
<1> QED BY <1>1, <1>2, <1>3, <1>4 DEF Next
-----------------------------------------------------------------------------
LEMMA StepExtends == ASSUME ExtInv, OwnInv, [Next]_vars PROVE ExtInv'
<1>1. DOMAIN mine = ModelFiles /\ \A f \in ModelFiles : DOMAIN mine[f] = {"ext", "own", "tags", "blocks"}
  BY DEF OwnInv, FilesInv
<1>2. CASE mine' = mine BY <1>2 DEF ExtInv
<1>3. ASSUME NEW g \in ModelFiles, NEW own, mine' = [mine EXCEPT ![g] = own], own.ext \in Seq(ExtFields)
      PROVE  ExtInv'
  <2>1. \A f \in ModelFiles : mine'[f] = IF f = g THEN own ELSE mine[f] BY <1>1, <1>3
  <2> QED BY <1>3, <2>1 DEF ExtInv
<1>4. CASE WriteModel
  <2>1. PICK f, tags : mine' = [mine EXCEPT ![f].tags = tags] BY <1>4, Zenon DEF WriteModel
  <2>2. \A g \in ModelFiles : mine'[g].ext = mine[g].ext BY <1>1, <2>1
  <2> QED BY <2>2 DEF ExtInv
<1>5. ASSUME NEW t \in Tables, Extend(t) PROVE ExtInv'
  <2>a. PICK g : g = ModelFile[t] OBVIOUS
  <2>1. PICK field \in ExtFields : mine' = [mine EXCEPT ![g].ext = Append(@, field)]
    BY <1>5, <2>a DEF Extend
  <2>2. g \in ModelFiles BY <2>a, ObjectFiles DEF ModelObjects
  <2>3. PICK own : own = [mine[g] EXCEPT !.ext = Append(@, field)] OBVIOUS
  <2>4. own.ext = Append(mine[g].ext, field) BY <1>1, <2>2, <2>3
  <2>5. mine[g].ext \in Seq(ExtFields) BY <2>2 DEF ExtInv
  <2>6. own.ext \in Seq(ExtFields) BY <2>1, <2>4, <2>5
  <2>7. mine' = [mine EXCEPT ![g] = own] BY <2>1, <2>3
  <2> QED BY <1>3, <2>2, <2>6, <2>7
<1>6. ASSUME NEW t \in Tables, WithdrawField(t) PROVE ExtInv'
  <2>1. PICK g : g = ModelFile[t] OBVIOUS
  <2>2. g \in ModelFiles BY <2>1, ObjectFiles DEF ModelObjects
  <2>3. PICK i \in DOMAIN mine[g].ext : mine' = [mine EXCEPT ![g].ext = RemoveAt(@, i)]
    BY <1>6, <2>1 DEF WithdrawField
  <2>4. PICK own : own = [mine[g] EXCEPT !.ext = RemoveAt(@, i)] OBVIOUS
  <2>5. PICK ext : ext = mine[g].ext OBVIOUS
  <2>6. own.ext = RemoveAt(ext, i) BY <1>1, <2>2, <2>4, <2>5
  <2>7. ext \in Seq(ExtFields) BY <2>2, <2>5 DEF ExtInv
  <2>8. RemoveAt(ext, i) = SubSeq(ext, 1, i - 1) \o SubSeq(ext, i + 1, Len(ext)) BY DEF RemoveAt
  <2>9. i \in 1..Len(ext) /\ Len(ext) \in Nat BY <2>3, <2>5, <2>7
  <2>10. SubSeq(ext, 1, i - 1) \in Seq(ExtFields) BY <2>7, <2>9
  <2>11. SubSeq(ext, i + 1, Len(ext)) \in Seq(ExtFields) BY <2>7, <2>9
  <2>12. own.ext \in Seq(ExtFields) BY <2>6, <2>8, <2>10, <2>11
  <2>13. mine' = [mine EXCEPT ![g] = own] BY <2>3, <2>4
  <2> QED BY <1>3, <2>2, <2>12, <2>13
<1>7. ASSUME NEW t \in Tables, Retag(t) PROVE ExtInv'
  <2>1. PICK f, tags : mine' = [mine EXCEPT ![f].tags = tags] BY <1>7, Zenon DEF Retag
  <2>2. \A g \in ModelFiles : mine'[g].ext = mine[g].ext BY <1>1, <2>1
  <2> QED BY <2>2 DEF ExtInv
<1>8. ASSUME NEW f \in ModelFiles, Declare(f) PROVE ExtInv'
  <2>1. PICK own : mine' = [mine EXCEPT ![f].own = own] BY <1>8, Zenon DEF Declare
  <2>2. \A g \in ModelFiles : mine'[g].ext = mine[g].ext BY <1>1, <2>1
  <2> QED BY <2>2 DEF ExtInv
<1>9. ASSUME NEW f \in ModelFiles, DeleteModel(f) PROVE ExtInv'
  <2>1. mine' = [mine EXCEPT ![f] = Nothing] BY <1>9 DEF DeleteModel
  <2>2. Nothing.ext = <<>> /\ <<>> \in Seq(ExtFields) BY DEF Nothing
  <2> QED BY <1>3, <2>1, <2>2
<1>10. \/ mine' = mine \/ WriteModel
       \/ \E t \in Tables : Extend(t) \/ WithdrawField(t) \/ Retag(t)
       \/ \E o \in Enums : DeclareConsts(o)
       \/ \E f \in ModelFiles : Declare(f) \/ DeleteModel(f)
  BY Zenon DEF Next, vars, Command, User, Interrupt, StartGenerate, SkipTable, MergeModel, ReadQueries,
         IntrospectQueries,
         WriteQuerier, OpenBinding, WriteBinding, BindingsWritten, Clean, ChangeSchema, EditQueries
<1>11. ASSUME NEW o \in Enums, DeclareConsts(o) PROVE ExtInv'
  <2>1. PICK f, block : mine' = [mine EXCEPT ![f].blocks = @ \cup {block}]
    BY <1>11, Zenon DEF DeclareConsts
  <2>2. \A g \in ModelFiles : mine'[g].ext = mine[g].ext BY <1>1, <2>1
  <2> QED BY <2>2 DEF ExtInv
<1> QED BY <1>2, <1>4, <1>5, <1>6, <1>7, <1>8, <1>9, <1>10, <1>11

QueryInv == OwnInv /\ TypeInv /\ BindInv /\ ExtInv

LEMMA QueriesHold == ASSUME FilesApart, LinesFit PROVE Spec => []QueryInv
<1>1. Init => QueryInv BY InitOwn, InitTypes, InitBinds DEF QueryInv
<1>2. QueryInv /\ [Next]_vars => QueryInv'
  BY StepOwn, StepTypes, StepBinds, StepExtends DEF QueryInv
<1> QED BY <1>1, <1>2, PTL DEF Spec

\* After a successful run every query's file is a function of its name.
LEMMA DoneWritten ==
  ASSUME LinesFit, QueryInv, Done
  PROVE  /\ source \in QueryFiles /\ Described /\ TablesListed
         /\ \A k \in 1..Len(cmd.queries) : Written(k, Len(cmd.queries))
         /\ cmd.queries # <<>> => /\ bindings["querier"] = Querier
                                  /\ cmd.extensions = [t \in Tables |-> ExtensionFields(t)]
<1>1. source \in QueryFiles /\ Described /\ TablesListed BY DEF QueryInv, BindInv, Done
<1>2. cmd.queries # <<>> => /\ bindings["querier"] = Querier
                            /\ cmd.extensions = [t \in Tables |-> ExtensionFields(t)]
                            /\ \A k \in 1..Len(cmd.queries) : Written(k, Len(cmd.queries))
  BY DEF QueryInv, BindInv, Done, Writing
<1>3. cmd.queries = <<>> => \A k \in 1..Len(cmd.queries) : Written(k, Len(cmd.queries))
  <2>1. Len(<<>>) = 0 /\ 1..0 = {} OBVIOUS
  <2> QED BY <2>1
<1> QED BY <1>1, <1>2, <1>3

\* An annotation with SQL is a query of the run.
LEMMA AnnotationRun ==
  ASSUME LinesFit, QueryInv, Done, NEW i \in Annotations, SqlOf(i) # <<>>
  PROVE  /\ \E k \in 1..Len(cmd.queries) : cmd.queries[k].query = QueryAt(i)
         /\ \E l \in 1..Len(cmd.queries) :
              /\ cmd.queries[l].query.name = source[i].name
              /\ bindings[BindingFile[source[i].name]] = TextOf(cmd.queries[l])
<1>1. PICK n \in Nat : n = Len(cmd.queries) /\ n = Len(Parsed) BY DoneWritten, DescribedAre
<1>2. QueryAt(i) \in AllQueries BY DEF AllQueries
<1>3. PICK k \in 1..n : Parsed[k] = QueryAt(i)
  <2>1. Elements(Parsed) = AllQueries BY DoneWritten, ParsedAre
  <2> QED BY <1>1, <1>2, <2>1 DEF Elements
<1>4. cmd.queries[k].query = QueryAt(i) BY <1>1, <1>3, DoneWritten DEF Described
<1>5. cmd.queries[k].query.name = source[i].name BY <1>4 DEF QueryAt
<1>6. Written(k, n) BY <1>1, DoneWritten
<1>7. PICK l \in 1..n : /\ cmd.queries[l].query.name = cmd.queries[k].query.name
                        /\ bindings[FileOf(cmd.queries[k])] = TextOf(cmd.queries[l])
  BY <1>6 DEF Written
<1> QED BY <1>1, <1>4, <1>5, <1>7 DEF FileOf

\* The query of an entry of the run is an annotation's.
LEMMA RunAnnotation ==
  ASSUME LinesFit, QueryInv, Done, NEW k \in 1..Len(cmd.queries)
  PROVE  \E i \in Annotations : SqlOf(i) # <<>> /\ cmd.queries[k].query = QueryAt(i)
<1>1. cmd.queries[k].query \in AllQueries
  <2>1. source \in QueryFiles /\ Described BY DoneWritten
  <2>2. Len(cmd.queries) = Len(Parsed) BY <2>1, DescribedAre
  <2> QED BY <2>1, <2>2, DescribedAre
<1> QED BY <1>1 DEF AllQueries

\* The parameters a query's SQL names.
LEMMA OccurrencesAre ==
  ASSUME NEW sql \in Seq(SqlLines)
  PROVE  Occurrences(sql) \in Seq([name : STRING, type : PgTypes])
<1>1. PICK S : S = [name : STRING, type : PgTypes] OBVIOUS
<1>2. PICK ss : ss = [i \in DOMAIN sql |-> sql[i].params] OBVIOUS
<1>3. PICK n \in Nat : n = Len(sql) /\ DOMAIN sql = 1..n OBVIOUS
<1>4. \A line \in SqlLines : line.params \in Seq(S)
  <2>1. SUFFICES ASSUME NEW line \in SqlLines PROVE line.params \in Seq(S) OBVIOUS
  <2>2. PICK lines \in QueryFiles : line \in Range(lines) /\ line.kind = "sql" BY DEF SqlLines
  <2> QED BY <1>1, <2>2, SourcesAssumption
<1>5. ss \in [1..n -> Seq(S)] BY <1>2, <1>3, <1>4
<1>6. ss \in Seq(Seq(S)) BY <1>5, FunctionIsList
<1>7. FlattenSeq(ss) \in Seq(S) BY <1>6, FlattenType
<1> QED BY <1>1, <1>2, <1>7 DEF Occurrences

LEMMA FunctionsFollow == ASSUME LinesFit, QueryInv PROVE FunctionsMatchQueries
<1> DEFINE Right(i, f, occ) ==
             /\ f.state = "go" /\ f.query = source[i].name
             /\ f.sql = SqlOf(i)
             /\ Len(f.positions) = Len(occ)
             /\ \A k \in DOMAIN occ : f.args[f.positions[k]].name = occ[k].name
             /\ Len(f.args) = Cardinality({p.name : p \in Range(occ)})
<1> SUFFICES ASSUME Done, NEW i \in Queries
    PROVE  Right(i, bindings[BindingFile[source[i].name]], Occurrences(SqlOf(i)))
  BY Zenon DEF FunctionsMatchQueries
<1> SUFFICES ASSUME NEW f, f = bindings[BindingFile[source[i].name]],
                    NEW occ, occ = Occurrences(SqlOf(i))
    PROVE  /\ f.state = "go" /\ f.query = source[i].name
           /\ f.sql = SqlOf(i)
           /\ Len(f.positions) = Len(occ)
           /\ \A k \in DOMAIN occ : f.args[f.positions[k]].name = occ[k].name
           /\ Len(f.args) = Cardinality({p.name : p \in Range(occ)})
  BY Zenon
<1>1. /\ i \in Annotations /\ SqlOf(i) # <<>>
      /\ \A j \in Annotations \ {i} : source[j].name # source[i].name
  BY DEF Queries
<1>2. PICK l \in 1..Len(cmd.queries) : /\ cmd.queries[l].query.name = source[i].name
                                       /\ f = TextOf(cmd.queries[l])
  BY <1>1, AnnotationRun
<1>3. PICK j \in Annotations : cmd.queries[l].query = QueryAt(j) BY RunAnnotation
<1>4. source[j].name = source[i].name BY <1>2, <1>3 DEF QueryAt
<1>5. j = i BY <1>1, <1>4
<1>6. PICK q, sql : q = QueryAt(i) /\ sql = SqlOf(i) OBVIOUS
<1>7. q.name = source[i].name /\ q.sql = sql BY <1>6 DEF QueryAt
<1>8. PICK columns : columns = cmd.queries[l].columns OBVIOUS
<1>9. f = QueryGo(q, columns, cmd.tables, cmd.seen, cmd.extensions)
  BY <1>2, <1>3, <1>5, <1>6, <1>8 DEF TextOf
<1>10. PICK p : p = ExtractParameters(sql) OBVIOUS
<1>11. /\ f.state = "go" /\ f.query = q.name /\ f.sql = sql
       /\ f.positions = p.positions /\ f.args = p.params
  BY <1>7, <1>9, <1>10 DEF QueryGo
<1>12. sql \in Seq(SqlLines) BY <1>1, <1>6, DoneWritten, SqlType
<1>13. PICK S : S = [name : STRING, type : PgTypes] OBVIOUS
<1>14. occ \in Seq(S) /\ occ = Occurrences(sql) BY <1>6, <1>12, <1>13, OccurrencesAre
<1>15. /\ Len(p.positions) = Len(occ)
       /\ \A k \in DOMAIN occ : p.params[p.positions[k]].name = occ[k].name
       /\ Len(p.params) = Cardinality(NameSet(occ))
  BY <1>10, <1>14, ArgumentsAre
<1> QED BY <1>6, <1>7, <1>11, <1>15 DEF NameSet

LEMMA CleanLeaves == ASSUME LinesFit, QueryInv PROVE CleanLeavesTheQueries
<1> SUFFICES ASSUME Done, cmd.clean, cmd.queries # <<>>
    PROVE  {f \in BindingFiles : bindings[f] # NoFile}
             = {"querier"} \cup {BindingFile[source[i].name] : i \in {j \in Annotations : SqlOf(j) # <<>>}}
  BY DEF CleanLeavesTheQueries
<1>1. \A f \in BindingFiles \ Generated : bindings[f] = NoFile BY DEF QueryInv, BindInv, Done
<1>2. bindings["querier"] # NoFile /\ "querier" \in BindingFiles
  <2>1. Querier.state # NoFile.state BY DEF Querier, NoFile
  <2> QED BY <2>1, DoneWritten DEF BindingFiles
<1>3. PICK n \in Nat : n = Len(cmd.queries) /\ DOMAIN cmd.queries = 1..n
  BY DoneWritten, DescribedAre
<1>4. ASSUME NEW f \in Generated, f # "querier"
      PROVE  \E i \in Annotations : SqlOf(i) # <<>> /\ f = BindingFile[source[i].name]
  <2>1. PICK q \in Range(cmd.queries) : f = BindingFile[q.query.name] BY <1>4 DEF Generated
  <2>2. PICK k \in 1..n : q = cmd.queries[k] BY <1>3 DEF Range
  <2>3. PICK i \in Annotations : SqlOf(i) # <<>> /\ cmd.queries[k].query = QueryAt(i)
    BY <1>3, RunAnnotation
  <2> QED BY <2>1, <2>2, <2>3 DEF QueryAt
<1>5. ASSUME NEW i \in Annotations, SqlOf(i) # <<>>
      PROVE  BindingFile[source[i].name] \in BindingFiles /\ bindings[BindingFile[source[i].name]] # NoFile
  <2>1. PICK l \in 1..Len(cmd.queries) : bindings[BindingFile[source[i].name]] = TextOf(cmd.queries[l])
    BY <1>5, AnnotationRun
  <2>2. TextOf(cmd.queries[l]).state = "go" BY DEF TextOf, QueryGo
  <2>3. NoFile.state = "none" BY DEF NoFile
  <2>4. source[i].name \in DOMAIN BindingFile BY DoneWritten, FileLines
  <2> QED BY <2>1, <2>2, <2>3, <2>4 DEF BindingFiles, Range
<1> QED BY <1>1, <1>2, <1>4, <1>5

\* A query that shares its name with no other has its own function.
LEMMA SoleWritten ==
  ASSUME LinesFit, QueryInv, Done, NEW q \in Sole
  PROVE  /\ bindings[BindingFile[q.query.name]] = TextOf(q)
         /\ ColumnsFit(q) /\ cmd.queries # <<>>
<1>1. PICK n \in Nat : n = Len(cmd.queries) /\ n = Len(Parsed) /\ DOMAIN cmd.queries = 1..n
  BY DoneWritten, DescribedAre
<1>2. PICK j \in 1..n : /\ q = cmd.queries[j]
                        /\ \A k \in 1..n \ {j} : cmd.queries[k].query.name # cmd.queries[j].query.name
  BY <1>1 DEF Sole
<1>3. Written(j, n) BY <1>1, DoneWritten
<1>4. PICK l \in 1..n : /\ cmd.queries[l].query.name = cmd.queries[j].query.name
                        /\ bindings[FileOf(cmd.queries[j])] = TextOf(cmd.queries[l])
  BY <1>3 DEF Written
<1>5. l = j BY <1>2, <1>4
<1>6. ColumnsFit(q) BY <1>1, <1>2, DoneWritten DEF Described
<1>7. cmd.queries # <<>>
  <2>1. n # 0 BY <1>2
  <2> QED BY <1>1, <2>1
<1> QED BY <1>2, <1>4, <1>5, <1>6, <1>7 DEF FileOf

\* The model found for it.
LEMMA MatchIs ==
  ASSUME LinesFit, QueryInv, Done, NEW q \in Sole, NEW match,
         match = FindMatchingModel(q.query, q.columns, cmd.tables, cmd.seen, cmd.extensions)
  PROVE  \/ /\ match = NoMatch
            /\ \/ q.columns = <<>> \/ ~Returns(q.query)
               \/ \A t \in Present(cmd.seen, Tables) : ~Matches(q.columns, t, cmd.seen, cmd.extensions)
         \/ /\ match # NoMatch /\ Returns(q.query) /\ match.table # ""
            /\ match.table \in Present(cmd.seen, Tables) /\ match.table \in Tables
            /\ cmd.seen[match.table] \in Shapes[match.table]
            /\ cmd.seen[match.table] \in Seq(Columns)
            /\ Matches(q.columns, match.table, cmd.seen, cmd.extensions)
            /\ match.ext = {c.name : c \in Range(q.columns)} \ {c.name : c \in Range(cmd.seen[match.table])}
<1>1. PICK tables, columns, seen, extensions :
        tables = cmd.tables /\ columns = q.columns /\ seen = cmd.seen /\ extensions = cmd.extensions
  OBVIOUS
<1>2. tables \in Seq(Tables) /\ Elements(tables) = Present(seen, Tables)
  BY <1>1, DoneWritten DEF TablesListed
<1>3. ModelFound(q.query, columns, tables, seen, extensions, match) BY <1>1, <1>2, FoundIs
<1>4. \A t \in Present(seen, Tables) :
        t \in Tables /\ seen[t] \in Shapes[t] /\ seen[t] \in Seq(Columns)
  <2>1. \A t \in Present(seen, Tables) : t \in Tables /\ seen[t] # Absent BY DEF Present
  <2>2. \A t \in Tables : seen[t] \in Shapes[t] \cup {Absent}
    BY <1>1 DEF QueryInv, TypeInv, ModelObjects
  <2>3. \A t \in Tables : Shapes[t] \subseteq Seq(Columns) BY ShapesAssumption
  <2> QED BY <2>1, <2>2, <2>3
<1> QED BY <1>1, <1>2, <1>3, <1>4 DEF NameSet, ModelFound

LEMMA ImportsFit == ASSUME LinesFit, AggsApart, QueryInv PROVE FunctionsCompile
<1> SUFFICES ASSUME Done, NEW q \in Sole, NEW f, f = bindings[BindingFile[q.query.name]]
    PROVE  f.imports = f.uses
  BY DEF FunctionsCompile
<1>1. f = TextOf(q) BY SoleWritten
<1>2. PICK match : match = FindMatchingModel(q.query, q.columns, cmd.tables, cmd.seen, cmd.extensions)
  OBVIOUS
<1>3. PICK p : p = ExtractParameters(q.query.sql) OBVIOUS
<1>4. /\ f.imports = CollectQueryImports(q.query, q.columns, p.params, match)
      /\ f.uses = QueryUses(q.query, q.columns, p.params, match)
  BY <1>1, <1>2, <1>3 DEF TextOf, QueryGo
<1>5. ASSUME NEW c \in Range(q.columns), c.agg
      PROVE  c.type = "jsonb" /\ (match # NoMatch => c.name \in match.ext)
  <2>1. PICK line \in SqlLines : c \in Range(line.computed)
    BY <1>5, SoleWritten DEF ColumnsFit, FromFile
  <2>2. PICK lines \in QueryFiles : line \in Range(lines) /\ line.kind = "sql" BY DEF SqlLines
  <2>3. c.type = "jsonb" BY <1>5, <2>1, <2>2, SourcesAssumption
  <2>4. ASSUME match # NoMatch PROVE c.name \in match.ext
    <3>1. PICK table, def : table = match.table /\ def = cmd.seen[table] OBVIOUS
    <3>2. /\ table \in Tables /\ def \in Shapes[table]
          /\ match.ext = {d.name : d \in Range(q.columns)} \ {d.name : d \in Range(def)}
      BY <1>2, <2>4, <3>1, MatchIs
    <3>3. \A column \in Range(def) : column.name # c.name BY <1>5, <2>1, <3>2 DEF AggsApart
    <3> QED BY <3>2, <3>3
  <2> QED BY <2>3, <2>4
<1>6. CollectQueryImports(q.query, q.columns, p.params, match)
        = QueryUses(q.query, q.columns, p.params, match)
  BY <1>5, ImportsAgree
<1> QED BY <1>4, <1>6

LEMMA ScansFit ==
  ASSUME LinesFit, FieldsReturn, QueryInv, TablesMatch PROVE ModelsFitQueries
<1> SUFFICES ASSUME Done, NEW q \in Sole, NEW f, f = bindings[BindingFile[q.query.name]],
                    NEW model, model = models[ModelFile[f.model]]
    PROVE  /\ f.query = q.query.name
           /\ f.model \notin Skipped \cup {""} =>
                /\ f.scans \subseteq FieldNames(model.main) \cup FieldNames(model.ext)
                /\ {PascalCase[c.name] : c \in Range(cmd.seen[f.model])} \subseteq f.scans
           /\ (Returns(q.query) /\ \E t \in Present(cmd.seen, Tables) :
                 {c.name : c \in Range(q.columns)} = {c.name : c \in Range(cmd.seen[t])})
              => f.model # ""
  BY DEF ModelsFitQueries
<1>1. f = TextOf(q) BY SoleWritten
<1>2. PICK match : match = FindMatchingModel(q.query, q.columns, cmd.tables, cmd.seen, cmd.extensions)
  OBVIOUS
<1>3. /\ f.query = q.query.name /\ f.model = match.table
      /\ f.scans = IF Returns(q.query) THEN {PascalCase[c.name] : c \in Range(q.columns)} ELSE {}
  BY <1>1, <1>2 DEF TextOf, QueryGo
<1>4. PICK names : names = {c.name : c \in Range(q.columns)} OBVIOUS
<1>5. ASSUME f.model \notin Skipped \cup {""}
      PROVE  /\ f.scans \subseteq FieldNames(model.main) \cup FieldNames(model.ext)
             /\ {PascalCase[c.name] : c \in Range(cmd.seen[f.model])} \subseteq f.scans
  <2>a. NoMatch.table = "" BY DEF NoMatch
  <2>1. match # NoMatch BY <1>3, <1>5, <2>a
  <2>2. PICK t, def, own : t = match.table /\ def = cmd.seen[t] /\ own = {c.name : c \in Range(def)}
    OBVIOUS
  <2>3. /\ Returns(q.query) /\ t \in Present(cmd.seen, Tables) /\ t \in Tables
        /\ Matches(q.columns, t, cmd.seen, cmd.extensions)
    BY <1>2, <2>1, <2>2, MatchIs
  <2>4. own \subseteq names /\ names \ own \subseteq {SnakeCase[g] : g \in cmd.extensions[t]}
    BY <1>4, <2>2, <2>3 DEF Matches
  <2>5. t \in Present(cmd.seen, Tables \ Skipped) BY <1>3, <1>5, <2>2, <2>3 DEF Present
  <2>6. /\ IsGo(model)
        /\ \A c \in Range(def) : PascalCase[c.name] \in FieldNames(model.main) \cup FieldNames(model.ext)
    <3>1. model = models[ModelFile[t]] BY <1>3, <2>2
    <3>2. /\ IsGo(model)
          /\ \A c \in Range(def) :
               PascalCase[c.name] \in FieldNames(model.main) \cup FieldNames(model.ext)
      BY <2>2, <2>5, <3>1 DEF TablesMatch
    <3> QED BY <3>2
  <2>7. cmd.extensions[t] = FieldNames(model.ext)
    <3>1. cmd.extensions[t] = ExtensionFields(t) BY <2>3, SoleWritten, DoneWritten
    <3> QED BY <1>3, <2>2, <2>6, <3>1 DEF ExtensionFields
  <2>8. \A g \in cmd.extensions[t] : PascalCase[SnakeCase[g]] = g
    <3>1. ModelFile[t] \in ModelFiles BY <2>3, ObjectFiles DEF ModelObjects
    <3>2. model.ext = mine[ModelFile[t]].ext
      BY <1>3, <2>2, <2>6, <3>1, FileNow DEF KeepsFields, QueryInv
    <3>3. PICK ext : ext = model.ext OBVIOUS
    <3>4. ext \in Seq(ExtFields) BY <3>1, <3>2, <3>3 DEF QueryInv, ExtInv
    <3>5. \A x \in Range(ext) : x \in ExtFields BY <3>4 DEF Range
    <3> QED BY <2>7, <3>3, <3>5 DEF FieldNames, FieldsReturn
  <2>9. ASSUME NEW c \in Range(q.columns)
        PROVE  PascalCase[c.name] \in FieldNames(model.main) \cup FieldNames(model.ext)
    <3>1. CASE c.name \in own BY <2>2, <2>6, <3>1
    <3>2. CASE c.name \notin own
      <4>1. c.name \in names BY <1>4
      <4>2. PICK g \in cmd.extensions[t] : c.name = SnakeCase[g] BY <2>4, <3>2, <4>1
      <4> QED BY <2>7, <2>8, <4>2
    <3> QED BY <3>1, <3>2
  <2>10. f.scans = {PascalCase[c.name] : c \in Range(q.columns)} BY <1>3, <2>3
  <2>11. ASSUME NEW c \in Range(def) PROVE PascalCase[c.name] \in f.scans
    <3>1. c.name \in names BY <2>2, <2>4
    <3>2. PICK d \in Range(q.columns) : d.name = c.name BY <1>4, <3>1
    <3> QED BY <2>10, <3>2
  <2> QED BY <1>3, <2>2, <2>9, <2>10, <2>11
<1>6. ASSUME Returns(q.query), NEW t \in Present(cmd.seen, Tables),
             names = {c.name : c \in Range(cmd.seen[t])}
      PROVE  f.model # ""
  <2>1. Matches(q.columns, t, cmd.seen, cmd.extensions) BY <1>4, <1>6 DEF Matches
  <2>2. q.columns # <<>>
    <3>1. PICK def : def = cmd.seen[t] OBVIOUS
    <3>2. t \in Tables /\ def # <<>> BY <3>1 DEF Present, Absent
    <3>3. def \in Shapes[t] BY <3>1, <3>2 DEF QueryInv, TypeInv, ModelObjects, Absent
    <3>4. def \in Seq(Columns) BY <3>2, <3>3, ShapesAssumption
    <3>5. def[1] \in Range(def) BY <3>2, <3>4 DEF Range
    <3>6. def[1].name \in names BY <1>6, <3>1, <3>5
    <3>7. Range(<<>>) = {} BY DEF Range
    <3> QED BY <1>4, <3>6, <3>7
  <2>3. match.table # "" BY <1>2, <1>6, <2>1, <2>2, MatchIs
  <2> QED BY <1>3, <2>3
<1> QED BY <1>3, <1>4, <1>5, <1>6

\* After a run that ended well each named query of the file that was read has its function
\* file, with the arguments and the result of that query and not of an earlier version of
\* it (ParseQueryFile, generateQueryFile), and a model matched only if it has its columns.
THEOREM FunctionsFollowTheQueries == ASSUME FilesApart, LinesFit PROVE Spec => []FunctionsMatchQueries
<1>1. QueryInv => FunctionsMatchQueries BY FunctionsFollow
<1> QED BY <1>1, QueriesHold, PTL

\* And no other function file is there: those of queries renamed or deleted are removed
\* (cleanup in generate.go), those of the queries just written are not.
THEOREM CleanRemovesTheRest == ASSUME FilesApart, LinesFit PROVE Spec => []CleanLeavesTheQueries
<1>1. QueryInv => CleanLeavesTheQueries BY CleanLeaves
<1> QED BY <1>1, QueriesHold, PTL

\* A function file imports what it uses and no other package (collectQueryImports), unless
\* a json_agg has the name of a table's column: with that table's model matched its value
\* is still unmarshalled, and encoding/json is not imported.
THEOREM FunctionsImportWhatTheyUse ==
  ASSUME FilesApart, LinesFit, AggsApart PROVE Spec => []FunctionsCompile
<1>1. QueryInv => FunctionsCompile BY ImportsFit
<1> QED BY <1>1, QueriesHold, PTL

\* A function that scans into a model names only fields the model's struct has, and all of
\* its columns (findMatchingModel, generateQueryFile), although the extension's fields were read
\* before the models were merged and the user may have edited them since.
THEOREM FunctionsScanTheirModels ==
  ASSUME TablesApart, FilesApart, LinesFit, FieldsReturn PROVE Spec => []ModelsFitQueries
<1>1. QueryInv /\ ModelInv => ModelsFitQueries BY ScansFit, FittingMatches
<1> QED BY <1>1, QueriesHold, ModelsHold, PTL
===============================================================================
