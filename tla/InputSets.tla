------------------------------ MODULE InputSets ------------------------------
(***************************************************************************)
(* input_sets.py: the sources are fetched and verified, two sets of images *)
(* are selected from them into a staging directory, and the directory that *)
(* holds the result is replaced by it.  Any step may raise or be killed,   *)
(* the removal of a directory in the middle of it.                         *)
(***************************************************************************)
EXTENDS Integers, Sequences, FiniteSets, FiniteSetsExt

CONSTANTS
    Labels,         \* the labels of the source images, 0..(Classes - 1)
    Classes,        \* number of classes, 10 in the code
    Pinned,         \* what a lock file may pin of the choice of images, right or wrong
    MaxCalls        \* bound: calls of the two programs

ASSUME LabelsAssumption == Classes \in Nat /\ Labels \in Seq(Nat)
\* lenet_source_indices and resnet50_candidate_offsets: a list for some of the
\* classes, of whatever length.
ASSUME PinnedAssumption ==
    \A lock \in Pinned : \A model \in {"lenet", "resnet50"} : \A class \in DOMAIN lock[model] : lock[model][class] \in Seq(Nat)

Sources == {"mnist", "imagenette"}
Parts == {"lenet", "resnet50", "manifest"}

VARIABLES
    call, setPc,
    cached,     \* for each source what its file holds: "none", "good" or "bad"
    verified,   \* what the running call has found good
    pinned,     \* what the lock file pins while the call runs
    stage,      \* what the staging directory holds, by part
    out,        \* the same of the result
    before,     \* what the result was when the call started
    removing    \* was a removal of the result cut short since it was last whole

setVars == <<call, setPc, cached, verified, pinned, stage, out, before, removing>>
Empty == [p \in {} |-> <<>>]
With(directory, part, content) == [p \in DOMAIN directory \cup {part} |-> IF p = part THEN content ELSE directory[p]]

SetsInit ==
    /\ call = 0 /\ setPc = "idle"
    /\ cached \in [Sources -> {"none", "good", "bad"}]
    /\ verified = {} /\ pinned \in Pinned
    /\ stage = Empty /\ out = Empty /\ before = Empty /\ removing = FALSE

\* Between two calls the lock file may become another one.
Begin(pc) ==
    /\ setPc \in {"idle", "fetched", "done", "raised", "killed"} /\ call < MaxCalls
    /\ call' = call + 1 /\ setPc' = pc /\ pinned' \in Pinned /\ verified' = {} /\ before' = out
    /\ UNCHANGED <<cached, stage, out, removing>>

\* fetch_multi_image_sources: what is cached and bad is removed and fetched
\* again; what is bad after that is left there.
Fetch ==
    /\ setPc = "fetch"
    /\ \E file \in Sources \ verified, downloaded \in {"none", "good", "bad"} :
        IF cached[file] = "good"
        THEN /\ verified' = verified \cup {file} /\ UNCHANGED cached
             /\ setPc' = IF verified' = Sources THEN "fetched" ELSE "fetch"
        ELSE /\ cached' = [cached EXCEPT ![file] = downloaded]
             /\ verified' = IF downloaded = "good" THEN verified \cup {file} ELSE verified
             /\ IF downloaded # "good" THEN setPc' \in {"raised", "killed"}
                ELSE setPc' = IF verified' = Sources THEN "fetched" ELSE "fetch"
    /\ UNCHANGED <<call, pinned, stage, out, before, removing>>

\* shutil.rmtree, as far as it gets: what is left of a directory.
Kept(directory, left) == [p \in left |-> directory[p]]
Leaves(directory) == {Kept(directory, left) : left \in SUBSET DOMAIN directory}

\* _verify of every source, then an empty staging directory, whatever an
\* earlier call has left there.  What fails here is not yet cleaned up after.
Verify ==
    /\ setPc = "verify"
    /\ \/ /\ \A file \in Sources : cached[file] = "good"
          /\ verified' = Sources
          /\ \/ setPc' = "lenet" /\ stage' = Empty
             \/ setPc' \in {"raised", "killed"} /\ stage' \in Leaves(stage)
       \/ /\ \E file \in Sources : cached[file] # "good"
          /\ setPc' = "raised" /\ UNCHANGED <<verified, stage>>
    /\ UNCHANGED <<call, cached, pinned, out, before, removing>>

\* The handler of every exception removes the staging directory, and ignores
\* what it cannot remove; a process that is killed may have begun to.
Discard == setPc' \in {"raised", "killed"} /\ stage' \in Leaves(stage)
Raise == Discard /\ UNCHANGED <<call, cached, verified, pinned, out, before, removing>>
Stages(part, content, next) ==
    /\ stage' = With(stage, part, content) /\ setPc' = next
    /\ UNCHANGED <<call, cached, verified, pinned, out, before, removing>>

\* _build_lenet: two images of each digit, with the labels the data set gives
\* them: the pinned ones if they are, or the first two.
Found(class) == {k \in DOMAIN Labels : Labels[k] = class}
FirstTwo(class) ==
    IF Cardinality(Found(class)) < 2 THEN <<>>
    ELSE LET first == Min(Found(class)) IN <<first, Min(Found(class) \ {first})>>
Indices(class) == IF class \in DOMAIN pinned.lenet THEN pinned.lenet[class] ELSE FirstTwo(class)
AnyLabel(class) == TRUE
Matches(class) == \A k \in DOMAIN Indices(class) : Indices(class)[k] \in DOMAIN Labels /\ Labels[Indices(class)[k]] = class
\* The records of a choice of two images for each class, class by class.
Chosen(choice) ==
    [k \in 1..(2 * Classes) |->
        [label |-> (k - 1) \div 2, source |-> choice[(k - 1) \div 2][1 + ((k - 1) % 2)]]]
Digits == Chosen([class \in 0..(Classes - 1) |-> Indices(class)])
BuildLenet ==
    /\ setPc = "lenet"
    /\ IF \A class \in 0..(Classes - 1) : Len(Indices(class)) = 2 /\ Matches(class)
       THEN Stages("lenet", Digits, "resnet50")
       ELSE Raise

\* _build_resnet: the candidates of each class in the order of their names, the
\* first two of them or the two that are pinned by their place in it.
Offsets(class) == IF class \in DOMAIN pinned.resnet50 THEN pinned.resnet50[class] ELSE <<0, 1>>
At(class, offset) == {k \in Found(class) : Cardinality({j \in Found(class) : j < k}) = offset}
Candidates(class) == [n \in DOMAIN Offsets(class) |-> CHOOSE k \in At(class, Offsets(class)[n]) : TRUE]
Photos == Chosen([class \in 0..(Classes - 1) |-> Candidates(class)])
BuildResnet ==
    /\ setPc = "resnet50"
    /\ IF \A class \in 0..(Classes - 1) :
            Len(Offsets(class)) = 2 /\ \A n \in DOMAIN Offsets(class) : At(class, Offsets(class)[n]) # {}
       THEN Stages("resnet50", Photos, "manifest")
       ELSE Raise

\* _write_set of both sets, and the manifest of the whole.
WriteSet ==
    /\ setPc = "manifest"
    /\ IF \A model \in {"lenet", "resnet50"} : Len(stage[model]) = 2 * Classes
       THEN Stages("manifest", <<>>, "remove") ELSE Raise

\* shutil.rmtree of the earlier result, then the rename.
RemoveOld ==
    /\ setPc = "remove"
    /\ \/ out' = Empty /\ setPc' = "rename" /\ UNCHANGED <<stage, removing>>
       \/ out # Empty /\ out' \in Leaves(out) /\ removing' = TRUE /\ Discard
    /\ UNCHANGED <<call, cached, verified, pinned, before>>
Rename ==
    /\ setPc = "rename"
    /\ out' = stage /\ stage' = Empty /\ setPc' = "done" /\ removing' = FALSE
    /\ UNCHANGED <<call, cached, verified, pinned, before>>

\* A download, a write or the rename fails, or the process is killed.
Break ==
    \/ setPc \in {"lenet", "resnet50", "manifest", "rename"} /\ Raise
    \/ /\ setPc = "fetch" /\ setPc' \in {"raised", "killed"}
       /\ UNCHANGED <<call, cached, verified, pinned, stage, out, before, removing>>

SetsNext ==
    \/ Begin("fetch") \/ Begin("verify")
    \/ Fetch \/ Verify \/ BuildLenet \/ BuildResnet \/ WriteSet \/ RemoveOld \/ Rename \/ Break

SetsSpec == SetsInit /\ [][SetsNext]_setVars

-----------------------------------------------------------------------------
\* A result is there as a whole or not at all, unless its removal was cut
\* short: two images of every class, with the labels of the data set, made of
\* verified sources.  A call that raises or is killed leaves the earlier result,
\* none, or what a removal that was cut short has left of it; one that is done
\* has replaced it with the images that its own lock file chooses.  A staging
\* directory may be left over, but nothing of it gets into a result.
TwoOfEachClass(records) ==
    \A class \in 0..(Classes - 1) :
        LET labelled == {k \in DOMAIN records : records[k].label = class}
        IN  Cardinality(labelled) = 2 /\ \A k \in labelled : Labels[records[k].source] = class
IsWhole(directory) ==
    /\ DOMAIN directory = Parts
    /\ \A model \in Parts \ {"manifest"} : TwoOfEachClass(directory[model])
InputSetIsWhole ==
    /\ ~removing => out = Empty \/ IsWhole(out)
    /\ setPc \in {"fetch", "fetched", "verify"} => out = before
    /\ setPc \in {"lenet", "resnet50", "manifest", "remove"} => out = before /\ verified = Sources
    /\ setPc \in {"raised", "killed"} => out = before \/ removing \/ out = Empty
    /\ setPc = "done" =>
        /\ ~removing /\ stage = Empty
        /\ DOMAIN out = Parts /\ out["lenet"] = Digits /\ out["resnet50"] = Photos
=============================================================================
