---------------------------- MODULE RowidMigration ----------------------------
(***************************************************************************)
(* scripts/migrate_rowid_to_oci.py: a table is copied in chunks of its      *)
(* extents, each uploaded as the object of the chunk's number and then      *)
(* entered in the checkpoint file, which a later run of the same command    *)
(* goes by. The run may die, an upload may fail or be done and reported     *)
(* failed, and the table grows meanwhile: a new extent may lie between old  *)
(* ones. (It is neither moved nor shrunk, as README.md asks.)               *)
(*                                                                         *)
(* An extent is its position in ROWID order; a chunk is its number and the  *)
(* positions of its first and last extent, which are its checkpoint key.    *)
(***************************************************************************)
EXTENDS Integers, Sequences

CONSTANTS
    Blocks,          \* where extents may lie, how many blocks one there has
    TargetBlocks,    \* --target-blocks
    MaxRuns, MaxGrowth, MaxFaults    \* bounds

\* Assumed of the constants.
SizesAreKnown ==
    /\ Blocks \in Seq(Nat \ {0})
    /\ TargetBlocks \in Nat \ {0}

VARIABLES
    extents,     \* of the table
    promised,    \* those it had when a run first looked
    objects,     \* per number, the extents whose rows the object holds
    recorded,    \* checkpoint keys in the file
    torn,        \* its last line has no end
    tail,        \* keys of that line, if it is readable so far
    pc, plan, turn, done, keepGoing, failed,   \* the run
    outcome, runs, growth, faults

file == <<recorded, torn, tail>>
vars == <<extents, promised, objects, file, pc, plan, turn, done, keepGoing, failed,
          outcome, runs, growth, faults>>

Positions == 1 .. Len(Blocks)

Numbers == Positions

-----------------------------------------------------------------------------
(* fetch_rowid_ranges: extents are added to the last chunk while they fit.  *)

\* The chunks so far, and the blocks of the last one.
NoChunk == [chunks |-> << >>, blocks |-> 0]

WithExtent(so_far, x) ==
    LET n == Len(so_far.chunks)
    IN  IF n > 0 /\ so_far.blocks + Blocks[x] <= TargetBlocks
        THEN [chunks |-> [so_far.chunks EXCEPT ![n] = <<n, @[2], x>>],
              blocks |-> so_far.blocks + Blocks[x]]
        ELSE [chunks |-> Append(so_far.chunks, <<n + 1, x, x>>), blocks |-> Blocks[x]]

Chunks(present) ==
    LET packed[x \in 0 .. Len(Blocks)] ==
            IF x = 0 THEN NoChunk
            ELSE IF x \in present THEN WithExtent(packed[x - 1], x) ELSE packed[x - 1]
    IN  packed[Len(Blocks)].chunks

\* export_chunk_to_parquet reads by ROWID, whatever extents are there now.
Exported(chunk) == {x \in extents : chunk[2] <= x /\ x <= chunk[3]}

Chunk == plan[turn]

-----------------------------------------------------------------------------
Init ==
    /\ extents \in SUBSET Positions
    /\ extents # {}
    /\ promised = extents
    /\ objects = [i \in Numbers |-> {}]
    /\ recorded = {} /\ torn = FALSE /\ tail = {}
    /\ pc = "idle" /\ plan = << >> /\ turn = 0 /\ done = {}
    /\ keepGoing = FALSE /\ failed = FALSE
    /\ outcome = "none"
    /\ runs = 0 /\ growth = 0 /\ faults = 0

Fault == faults < MaxFaults /\ faults' = faults + 1

Grow ==
    /\ growth < MaxGrowth
    /\ growth' = growth + 1
    /\ \E x \in Positions \ extents : extents' = extents \cup {x}
    /\ promised' = IF runs = 0 THEN extents' ELSE promised
    /\ UNCHANGED <<objects, file, pc, plan, turn, done, keepGoing, failed, outcome, runs, faults>>

End(result) ==
    /\ pc' = "idle" /\ outcome' = result
    /\ plan' = << >> /\ turn' = 0 /\ done' = {} /\ keepGoing' = FALSE /\ failed' = FALSE

\* append_checkpoint: a line begun by a run that died swallows this one.
AppendLine(keys) ==
    /\ recorded' = IF torn THEN recorded \ tail ELSE recorded \cup keys
    /\ torn' = FALSE /\ tail' = {}

\* The process dies while it writes: some of the line is in the file.
TearLine(keys) ==
    /\ torn' = TRUE
    /\ \E readable \in {{}, keys} :
          IF torn
          THEN recorded' = recorded \ tail /\ tail' = {}
          ELSE recorded' = recorded \cup readable /\ tail' = readable

Start ==
    /\ pc = "idle" /\ runs < MaxRuns
    /\ runs' = runs + 1
    /\ pc' = "copy" /\ plan' = Chunks(extents) /\ turn' = 1
    /\ done' = recorded
    /\ keepGoing' \in BOOLEAN
    /\ outcome' = "none"
    /\ UNCHANGED <<extents, promised, objects, file, failed, growth, faults>>

Skip ==
    /\ pc = "copy" /\ turn <= Len(plan) /\ Chunk \in done
    /\ turn' = turn + 1
    /\ UNCHANGED <<extents, promised, objects, file, pc, plan, done, keepGoing, failed,
                   outcome, runs, growth, faults>>

Put == objects' = [objects EXCEPT ![Chunk[1]] = Exported(Chunk)]

\* Faulty variant: the chunk is entered before it is uploaded.
RecordAndUpload ==
    /\ pc = "copy" /\ turn <= Len(plan) /\ Chunk \notin done
    /\ \/ AppendLine({Chunk}) /\ Put /\ pc' = "record" /\ UNCHANGED <<failed, faults>>
       \/ /\ Fault /\ AppendLine({Chunk}) /\ UNCHANGED objects
          /\ pc' = "record" /\ failed' = TRUE
    /\ UNCHANGED <<extents, promised, plan, turn, done, keepGoing, outcome, runs, growth>>

\* A chunk is exported and uploaded. One that fails is entered as failed,
\* and ends the run unless it goes on with the others.
Upload ==
    /\ pc = "copy" /\ turn <= Len(plan) /\ Chunk \notin done
    /\ \/ Put /\ pc' = "record"
          /\ UNCHANGED <<file, plan, turn, done, keepGoing, failed, outcome, faults>>
       \/ /\ Fault
          /\ Put \/ UNCHANGED objects
          /\ AppendLine({})
          /\ IF keepGoing
             THEN /\ turn' = turn + 1 /\ failed' = TRUE
                  /\ UNCHANGED <<pc, plan, done, keepGoing, outcome>>
             ELSE End("failed")
    /\ UNCHANGED <<extents, promised, runs, growth>>

Record ==
    /\ pc = "record"
    /\ AppendLine({Chunk})
    /\ done' = done \cup {Chunk}
    /\ turn' = turn + 1
    /\ pc' = "copy"
    /\ UNCHANGED <<extents, promised, objects, plan, keepGoing, failed, outcome, runs,
                   growth, faults>>

Finish ==
    /\ pc = "copy" /\ turn > Len(plan)
    /\ End(IF failed THEN "failed" ELSE "succeeded")
    /\ UNCHANGED <<extents, promised, objects, file, runs, growth, faults>>

Die ==
    /\ pc # "idle" /\ Fault
    /\ End("died")
    /\ UNCHANGED file \/ (pc = "record" /\ TearLine({Chunk}))
    /\ UNCHANGED <<extents, promised, objects, runs, growth>>

Over == pc = "idle" /\ runs = MaxRuns /\ UNCHANGED vars

Next ==
    \/ Grow \/ Start \/ Skip \/ Upload \/ Record \/ Finish \/ Die \/ Over

Spec == Init /\ [][Next]_vars

-----------------------------------------------------------------------------
(* Property.                                                                *)

\* When a run succeeds, whatever became of the runs before it, the objects
\* hold every extent the first run found, and, if the table did not grow,
\* none twice. (Of a table that grows no more is true: an extent between the
\* ends of a chunk already entered is not copied, and an object written for
\* a longer chunk stays when the shorter one it had been is planned again.)
CopiedOnce ==
    outcome = "succeeded" =>
        /\ promised \subseteq UNION {objects[i] : i \in Numbers}
        /\ growth = 0 => \A i, j \in Numbers : i # j => objects[i] \cap objects[j] = {}
=============================================================================
