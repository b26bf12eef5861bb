---------------------------- MODULE Instructions ----------------------------
(***************************************************************************)
(* setup instructions: internal/setup/instructions.go keeps a block of its *)
(* own between two markers in a file of instructions that is the user's.   *)
(*                                                                         *)
(* A text is a sequence of pieces: the markers, the block of this and of   *)
(* an older version, and the lines of the user.                            *)
(***************************************************************************)
EXTENDS Naturals, Sequences, FiniteSets

CONSTANTS
    Texts,      \* texts the user may have or make
    NoFile,
    MaxEdits,
    MaxRuns,
    Apart       \* the user edits between two commands only

InstructionsAssumption ==
    /\ NoFile \notin Texts
    /\ Apart \in BOOLEAN
    /\ {MaxEdits, MaxRuns} \subseteq Nat

VARIABLES
    file,     \* the file's text, or NoFile
    backups,  \* the texts saved beside it
    pc,
    text,     \* what updateInstructionsFile has read
    lost,     \* a text that a run has replaced without a backup
    edits, runs

vars == <<file, backups, pc, text, lost, edits, runs>>

Begins == "begin"
Ends == "end"
Block == <<Begins, "new", Ends>>

\* strings.Index: 0 if it is not there.
Index(t, x) ==
    LET at == {i \in DOMAIN t : t[i] = x}
    IN  IF at = {} THEN 0 ELSE CHOOSE i \in at : \A j \in at : i <= j

Marked(t) == Index(t, Begins) > 0 /\ Index(t, Ends) >= Index(t, Begins)
Between(t) == SubSeq(t, Index(t, Begins), Index(t, Ends))
Outside(t) ==
    IF Marked(t)
    THEN SubSeq(t, 1, Index(t, Begins) - 1) \o SubSeq(t, Index(t, Ends) + 1, Len(t))
    ELSE t

\* A marker without the other, or both in the wrong order.
Broken(t) == ~Marked(t) /\ (Index(t, Begins) > 0 \/ Index(t, Ends) > 0)

UpToDate(t) == t # NoFile /\ Marked(t) /\ Between(t) = Block
Content(f) == IF f = NoFile THEN << >> ELSE f

\* updateInstructionsFile.
Updated(t) ==
    IF Marked(t)
    THEN SubSeq(t, 1, Index(t, Begins) - 1) \o Block
            \o SubSeq(t, Index(t, Ends) + 1, Len(t))
    ELSE t \o Block

----------------------------------------------------------------------------
Init ==
    /\ file \in Texts \union {NoFile}
    /\ backups = {}
    /\ pc = "idle"
    /\ text = << >>
    /\ lost = FALSE
    /\ edits = 0
    /\ runs = 0

\* RunInstructions, for one client.
Look ==
    /\ pc = "idle"
    /\ runs < MaxRuns
    /\ runs' = runs + 1
    /\ pc' = IF UpToDate(file) THEN "idle" ELSE "backup"
    /\ UNCHANGED <<file, backups, text, lost, edits>>

Backup ==
    /\ pc = "backup"
    /\ backups' = IF file = NoFile THEN backups ELSE backups \union {file}
    /\ pc' = "read"
    /\ UNCHANGED <<file, text, lost, edits, runs>>

Read ==
    /\ pc = "read"
    /\ text' = Content(file)
    /\ pc' = IF Broken(text') THEN "idle" ELSE "write"
    /\ UNCHANGED <<file, backups, lost, edits, runs>>

\* writeSetupAtomic: a rename over the file there is now.
Write ==
    /\ pc = "write"
    /\ lost' = (lost \/ (file # NoFile /\ file \notin backups))
    /\ file' = Updated(text)
    /\ pc' = "idle"
    /\ UNCHANGED <<backups, text, edits, runs>>

\* The command is killed; its temporary file stays beside.
Killed ==
    /\ pc # "idle"
    /\ pc' = "idle"
    /\ UNCHANGED <<file, backups, text, lost, edits, runs>>

Edit ==
    /\ edits < MaxEdits
    /\ Apart => pc = "idle"
    /\ file' \in Texts
    /\ edits' = edits + 1
    /\ UNCHANGED <<backups, pc, text, lost, runs>>

Next == Look \/ Backup \/ Read \/ Write \/ Killed \/ Edit

Spec == Init /\ [][Next]_vars

----------------------------------------------------------------------------
\* Properties.

TypeOK ==
    /\ pc \in {"idle", "backup", "read", "write"}
    /\ file # NoFile /\ pc \in {"read", "write"} /\ Apart => file \in backups

\* A write leaves every line outside of the block as and where it was, a
\* second block included, and what it has written it will not write again
\* (instructions.go, RunInstructions).
UserLinesStay ==
    Write => /\ Outside(file') = Outside(Content(file))
             /\ UpToDate(file')

\* What a run replaces can be had from a backup, whatever was killed before.
BackedUp == ~lost
=============================================================================
