------------------------ MODULE FileReplacementProofs ------------------------
(***************************************************************************)
(* What holds of FileReplacement for every set of releases, settings and   *)
(* container ids, every number of kills and every number of failed calls.  *)
(* The invariant is built in layers, each inductive relative to the ones   *)
(* before it: types, then where the game may run, then what the directory, *)
(* the journal and the row say together, then what one failed call leaves. *)
(***************************************************************************)
EXTENDS FileReplacement, TLAPS

NoneRunning == \A c \in Ids : ~Running(c)

\* An undo is only under way over an uncommitted journal, whose configuration
\* it reads.
TypeInv ==
    /\ TypeOK
    /\ op.pc \in {"halt", "clear", "back", "revert"} => journal.tag = "original"

\* Only one container exists, and the row knows of it while it runs; the
\* operation works from the current row until it has stopped the game.
SingleContainer == \A c, d \in Ids : cont[c] # "absent" /\ cont[d] # "absent" => c = d
RowKnowsGame == \A c \in Ids : Running(c) => row.cid = c /\ row.state \in {"running", "suspended"}
GameStopped ==
    \/ op.pc \in (Replacing \ {"cold"}) \cup {"clear", "back", "revert"}
    \/ mode = "ready" /\ op.pc \in Recovering \cup {"done"}
    => NoneRunning

GameInv ==
    /\ req = {}
    /\ op.pc \in Replacing => mode = "ready"
    /\ op.pc = "cold" => op.row = row
    /\ mode = "boot" /\ op.pc # "idle" => op.row = row \/ NoneRunning
    /\ SingleContainer
    /\ RowKnowsGame
    /\ GameStopped

\* The world of the server is always the one its settings describe, and each
\* step finds the directory, the journal and the row as it needs them.
SwapInv ==
    /\ World = Settings.rel
    /\ op.pc \in {"check", "open", "write"} => op.row.conf = row.conf
    /\ op.pc \in {"open", "write", "mark", "remove", "retire", "forget"} => previous = Absent
    /\ op.pc = "write" => journal.tag = "empty"
    /\ op.pc \in {"mark", "remove", "retire", "promote", "save", "commit"} => journal.tag = "original"
    /\ op.pc \in {"promote", "clear", "back"} => previous # Absent
    /\ op.pc \in {"save", "commit"} => live = op.target.rel
    /\ op.pc = "commit" => row.conf = op.target
    /\ op.pc = "revert" => previous = Absent
    /\ op.pc = "purge" => journal.tag = "committed"
    /\ op.pc = "forget" => journal.tag \in {"original", "committed"}
    /\ op.pc = "forget" /\ journal.tag = "original" => row.conf = journal.conf

\* With at most one failed call, an uncommitted journal is never left behind a
\* server that can be started.
ErrorInv ==
    /\ mode = "ready" /\ op.pc \in {"idle", "cold"} /\ row.state \in Quiet => journal.tag # "original"
    /\ op.pc \in {"check", "open", "write", "done"} => journal.tag # "original"
    /\ mode = "ready" /\ op.pc \in Recovering /\ journal.tag = "original" => errors >= 1

-----------------------------------------------------------------------------
(***************************************************************************)
(* Types.                                                                  *)
(***************************************************************************)

\* Every step of the game, the people, the operation and the process keeps the
\* shape of the row, the containers, the disk and the operation.
LEMMA TypeStep == ASSUME TypeInv, [Next]_vars PROVE TypeInv'
<1> USE CallersAssumption, ValuesAssumption, BoundsAssumption
    DEF TypeInv, TypeOK, Row, Conf, States, Directory, Replacing, Recovering,
        Idle, Quiet, Free, Error, disk, bounds, Goto
<1>1. CASE StartGame
  <2>1. PICK c \in Ids :
          /\ cont' = [d \in Ids |-> IF d = c THEN "running" ELSE "absent"]
          /\ row' = [row EXCEPT !.state = "running", !.cid = c]
    BY <1>1 DEF StartGame
  <2>2. row' \in Row
    BY <2>1
  <2>3. cont' \in [Ids -> {"absent", "stopped", "running"}]
    BY <2>1
  <2>4. UNCHANGED <<live, previous, journal, op, req, mode, kills, errors>>
    BY <1>1 DEF StartGame
  <2>5. QED
    BY <2>2, <2>3, <2>4
<1>2. CASE StopGame
  BY <1>2 DEF StopGame, Stop, Running
<1>3. CASE EditConfiguration
  BY <1>3 DEF EditConfiguration
<1>4. CASE NoticeCrash
  BY <1>4 DEF NoticeCrash, Running
<1>5. CASE GameExit
  BY <1>5 DEF GameExit, Running
<1>6. CASE Lookup
  BY <1>6 DEF Lookup
<1>7. CASE Begin
  BY <1>7 DEF Begin
<1>8. CASE ColdCopy
  BY <1>8 DEF ColdCopy, StopIfRunning, Stop, Running, CopyPossible
<1>9. CASE ColdCopyFails
  BY <1>9 DEF ColdCopyFails, StopIfRunning, Stop, Running, CopyPossible
<1>10. CASE Check
  BY <1>10 DEF Check
<1>11. CASE OpenJournal
  BY <1>11 DEF OpenJournal
<1>12. CASE WriteJournal
  BY <1>12 DEF WriteJournal
<1>13. CASE WriteJournalFails
  BY <1>13 DEF WriteJournalFails
<1>14. CASE MarkReplacing
  BY <1>14 DEF MarkReplacing
<1>15. CASE RemoveContainer
  BY <1>15 DEF RemoveContainer, Running
<1>16. CASE RetireLive
  BY <1>16 DEF RetireLive
<1>17. CASE PromoteStaged
  BY <1>17 DEF PromoteStaged
<1>18. CASE SaveConfiguration
  BY <1>18 DEF SaveConfiguration
<1>19. CASE CommitJournal
  BY <1>19 DEF CommitJournal
<1>20. CASE StepFails
  BY <1>20 DEF StepFails
<1>21. CASE ReadJournal
  BY <1>21 DEF ReadJournal
<1>22. CASE HaltContainer
  BY <1>22 DEF HaltContainer, Running
<1>23. CASE ClearLive
  BY <1>23 DEF ClearLive
<1>24. CASE RenameBack
  BY <1>24 DEF RenameBack
<1>25. CASE RevertRow
  BY <1>25 DEF RevertRow
<1>26. CASE PurgePrevious
  BY <1>26 DEF PurgePrevious
<1>27. CASE ForgetJournal
  BY <1>27 DEF ForgetJournal
<1>28. CASE Release
  BY <1>28 DEF Release
<1>29. CASE RecoveryFails
  BY <1>29 DEF RecoveryFails
<1>30. CASE Kill
  BY <1>30 DEF Kill
<1>31. CASE Boot
  BY <1>31 DEF Boot
<1>32. CASE BootDone
  <2>1. row' = Adopted /\ row \in Row
    BY <1>32 DEF BootDone
  <2>2. Adopted = row \/ \E c \in Ids, state \in {"running", "offline"} :
                           Adopted = [row EXCEPT !.cid = c, !.state = state]
    <3>1. CASE {c \in Ids : cont[c] # "absent"} = {}
      BY <3>1 DEF Adopted
    <3>2. CASE {c \in Ids : cont[c] # "absent"} # {}
      <4>1. (CHOOSE d \in {c \in Ids : cont[c] # "absent"} : TRUE) \in Ids
        BY <3>2
      <4>2. QED
        BY <4>1 DEF Adopted
    <3>3. QED
      BY <3>1, <3>2
  <2>3. row' \in Row
    <3>1. CASE Adopted = row
      BY <2>1, <3>1
    <3>2. CASE Adopted # row
      <4>1. PICK c \in Ids, state \in {"running", "offline"} :
                   row' = [row EXCEPT !.cid = c, !.state = state]
        BY <2>1, <2>2, <3>2
      <4>2. QED
        BY <4>1
    <3>3. QED
      BY <3>1, <3>2
  <2>4. op' = Idle /\ mode' = "ready"
    BY <1>32 DEF BootDone
  <2>5. UNCHANGED <<cont, live, previous, journal, req, kills, errors>>
    BY <1>32 DEF BootDone
  <2>6. QED
    BY <2>3, <2>4, <2>5
<1>33. CASE UNCHANGED vars
  BY <1>33 DEF vars
<1>34. QED
  BY <1>1, <1>2, <1>3, <1>4, <1>5, <1>6, <1>7, <1>8, <1>9, <1>10, <1>11, <1>12, <1>13, <1>14, <1>15, <1>16, <1>17, <1>18, <1>19, <1>20, <1>21, <1>22, <1>23, <1>24, <1>25, <1>26, <1>27, <1>28, <1>29, <1>30, <1>31, <1>32, <1>33 DEF Next, Others, Replacement, Recovery

-----------------------------------------------------------------------------
(***************************************************************************)
(* Where the game may run.                                                 *)
(***************************************************************************)

\* While every replacement reads the row with the lock held, no step of a
\* replacement after its cold copy meets a running container.
LEMMA GameStep ==
    ASSUME "route" \notin Callers, TypeInv, TypeInv', GameInv, [Next]_vars
    PROVE  GameInv'
<1> USE CallersAssumption, ValuesAssumption
    DEF GameInv, SingleContainer, RowKnowsGame, GameStopped, NoneRunning, Running,
        TypeInv, TypeOK, Row, States, Replacing, Recovering, Idle, Quiet, Free,
        Error, disk, bounds, Goto
<1>1. CASE StartGame
  BY <1>1 DEF StartGame
<1>2. CASE StopGame
  BY <1>2 DEF StopGame, Stop
<1>3. CASE EditConfiguration
  BY <1>3 DEF EditConfiguration
<1>4. CASE NoticeCrash
  BY <1>4 DEF NoticeCrash
<1>5. CASE GameExit
  BY <1>5 DEF GameExit
<1>6. CASE Lookup
  BY <1>6 DEF Lookup
<1>7. CASE Begin
  BY <1>7 DEF Begin
<1>8. CASE ColdCopy
  BY <1>8 DEF ColdCopy, StopIfRunning, Stop, CopyPossible
<1>9. CASE ColdCopyFails
  BY <1>9 DEF ColdCopyFails, StopIfRunning, Stop, CopyPossible
<1>10. CASE Check
  BY <1>10 DEF Check
<1>11. CASE OpenJournal
  BY <1>11 DEF OpenJournal
<1>12. CASE WriteJournal
  BY <1>12 DEF WriteJournal
<1>13. CASE WriteJournalFails
  BY <1>13 DEF WriteJournalFails
<1>14. CASE MarkReplacing
  BY <1>14 DEF MarkReplacing
<1>15. CASE RemoveContainer
  BY <1>15 DEF RemoveContainer
<1>16. CASE RetireLive
  BY <1>16 DEF RetireLive
<1>17. CASE PromoteStaged
  BY <1>17 DEF PromoteStaged
<1>18. CASE SaveConfiguration
  BY <1>18 DEF SaveConfiguration
<1>19. CASE CommitJournal
  BY <1>19 DEF CommitJournal
<1>20. CASE StepFails
  BY <1>20 DEF StepFails
<1>21. CASE ReadJournal
  BY <1>21 DEF ReadJournal
<1>22. CASE HaltContainer
  BY <1>22 DEF HaltContainer
<1>23. CASE ClearLive
  BY <1>23 DEF ClearLive
<1>24. CASE RenameBack
  BY <1>24 DEF RenameBack
<1>25. CASE RevertRow
  BY <1>25 DEF RevertRow
<1>26. CASE PurgePrevious
  BY <1>26 DEF PurgePrevious
<1>27. CASE ForgetJournal
  BY <1>27 DEF ForgetJournal
<1>28. CASE Release
  BY <1>28 DEF Release
<1>29. CASE RecoveryFails
  BY <1>29 DEF RecoveryFails
<1>30. CASE Kill
  BY <1>30 DEF Kill
<1>31. CASE Boot
  BY <1>31 DEF Boot
<1>32. CASE BootDone
  BY <1>32 DEF BootDone, Adopted
<1>33. CASE UNCHANGED vars
  BY <1>33 DEF vars
<1>34. QED
  BY <1>1, <1>2, <1>3, <1>4, <1>5, <1>6, <1>7, <1>8, <1>9, <1>10, <1>11, <1>12, <1>13, <1>14, <1>15, <1>16, <1>17, <1>18, <1>19, <1>20, <1>21, <1>22, <1>23, <1>24, <1>25, <1>26, <1>27, <1>28, <1>29, <1>30, <1>31, <1>32, <1>33 DEF Next, Others, Replacement, Recovery

-----------------------------------------------------------------------------
(***************************************************************************)
(* The directory, the journal and the row.                                 *)
(***************************************************************************)

\* Every step of the replacement, of its undo and of the boot recovery finds
\* the directory, the journal and the row as it needs them.
LEMMA SwapStep ==
    ASSUME TypeInv, TypeInv', GameInv, GameInv', SwapInv, [Next]_vars
    PROVE  SwapInv'
<1> USE CallersAssumption, ValuesAssumption
    DEF SwapInv, World, Settings, GameInv, TypeInv, TypeOK, Row, Conf, Directory,
        Replacing, Recovering, Idle, Free, Error, disk, bounds, Goto
<1>1. CASE StartGame
  BY <1>1 DEF StartGame
<1>2. CASE StopGame
  BY <1>2 DEF StopGame, Stop
<1>3. CASE EditConfiguration
  BY <1>3 DEF EditConfiguration
<1>4. CASE NoticeCrash
  BY <1>4 DEF NoticeCrash
<1>5. CASE GameExit
  BY <1>5 DEF GameExit
<1>6. CASE Lookup
  BY <1>6 DEF Lookup
<1>7. CASE Begin
  BY <1>7 DEF Begin
<1>8. CASE ColdCopy
  BY <1>8 DEF ColdCopy, StopIfRunning, Stop, CopyPossible
<1>9. CASE ColdCopyFails
  BY <1>9 DEF ColdCopyFails, StopIfRunning, Stop, CopyPossible
<1>10. CASE Check
  BY <1>10 DEF Check
<1>11. CASE OpenJournal
  BY <1>11 DEF OpenJournal
<1>12. CASE WriteJournal
  BY <1>12 DEF WriteJournal
<1>13. CASE WriteJournalFails
  BY <1>13 DEF WriteJournalFails
<1>14. CASE MarkReplacing
  BY <1>14 DEF MarkReplacing
<1>15. CASE RemoveContainer
  BY <1>15 DEF RemoveContainer
<1>16. CASE RetireLive
  BY <1>16 DEF RetireLive
<1>17. CASE PromoteStaged
  BY <1>17 DEF PromoteStaged
<1>18. CASE SaveConfiguration
  BY <1>18 DEF SaveConfiguration
<1>19. CASE CommitJournal
  BY <1>19 DEF CommitJournal
<1>20. CASE StepFails
  BY <1>20 DEF StepFails
<1>21. CASE ReadJournal
  BY <1>21 DEF ReadJournal
<1>22. CASE HaltContainer
  BY <1>22 DEF HaltContainer
<1>23. CASE ClearLive
  BY <1>23 DEF ClearLive
<1>24. CASE RenameBack
  BY <1>24 DEF RenameBack
<1>25. CASE RevertRow
  BY <1>25 DEF RevertRow
<1>26. CASE PurgePrevious
  BY <1>26 DEF PurgePrevious
<1>27. CASE ForgetJournal
  BY <1>27 DEF ForgetJournal
<1>28. CASE Release
  BY <1>28 DEF Release
<1>29. CASE RecoveryFails
  BY <1>29 DEF RecoveryFails
<1>30. CASE Kill
  BY <1>30 DEF Kill
<1>31. CASE Boot
  BY <1>31 DEF Boot
<1>32. CASE BootDone
  BY <1>32 DEF BootDone, Adopted
<1>33. CASE UNCHANGED vars
  BY <1>33 DEF vars
<1>34. QED
  BY <1>1, <1>2, <1>3, <1>4, <1>5, <1>6, <1>7, <1>8, <1>9, <1>10, <1>11, <1>12, <1>13, <1>14, <1>15, <1>16, <1>17, <1>18, <1>19, <1>20, <1>21, <1>22, <1>23, <1>24, <1>25, <1>26, <1>27, <1>28, <1>29, <1>30, <1>31, <1>32, <1>33 DEF Next, Others, Replacement, Recovery

\* Only committing the journal replaces, only an edit edits, and every other
\* step leaves the world and its settings as they are.
LEMMA ReplacementStep ==
    ASSUME TypeInv, TypeInv', GameInv, SwapInv, SwapInv', [Next]_vars
    PROVE  [Atomic!Next]_(Atomic!vars)
<1> USE CallersAssumption, ValuesAssumption
    DEF Atomic!Next, Atomic!Edit, Atomic!Replace, Atomic!Conf, Atomic!vars,
        SwapInv, World, Settings, GameInv, TypeInv, TypeOK, Row, Conf, Directory,
        Replacing, Recovering, Idle, Free, Error, disk, bounds, Goto
<1>1. CASE StartGame
  BY <1>1 DEF StartGame
<1>2. CASE StopGame
  BY <1>2 DEF StopGame, Stop
<1>3. CASE EditConfiguration
  BY <1>3 DEF EditConfiguration
<1>4. CASE NoticeCrash
  BY <1>4 DEF NoticeCrash
<1>5. CASE GameExit
  BY <1>5 DEF GameExit
<1>6. CASE Lookup
  BY <1>6 DEF Lookup
<1>7. CASE Begin
  BY <1>7 DEF Begin
<1>8. CASE ColdCopy
  BY <1>8 DEF ColdCopy, StopIfRunning, Stop, CopyPossible
<1>9. CASE ColdCopyFails
  BY <1>9 DEF ColdCopyFails, StopIfRunning, Stop, CopyPossible
<1>10. CASE Check
  BY <1>10 DEF Check
<1>11. CASE OpenJournal
  BY <1>11 DEF OpenJournal
<1>12. CASE WriteJournal
  BY <1>12 DEF WriteJournal
<1>13. CASE WriteJournalFails
  BY <1>13 DEF WriteJournalFails
<1>14. CASE MarkReplacing
  BY <1>14 DEF MarkReplacing
<1>15. CASE RemoveContainer
  BY <1>15 DEF RemoveContainer
<1>16. CASE RetireLive
  BY <1>16 DEF RetireLive
<1>17. CASE PromoteStaged
  BY <1>17 DEF PromoteStaged
<1>18. CASE SaveConfiguration
  BY <1>18 DEF SaveConfiguration
<1>19. CASE CommitJournal
  BY <1>19 DEF CommitJournal
<1>20. CASE StepFails
  BY <1>20 DEF StepFails
<1>21. CASE ReadJournal
  BY <1>21 DEF ReadJournal
<1>22. CASE HaltContainer
  BY <1>22 DEF HaltContainer
<1>23. CASE ClearLive
  BY <1>23 DEF ClearLive
<1>24. CASE RenameBack
  BY <1>24 DEF RenameBack
<1>25. CASE RevertRow
  BY <1>25 DEF RevertRow
<1>26. CASE PurgePrevious
  BY <1>26 DEF PurgePrevious
<1>27. CASE ForgetJournal
  BY <1>27 DEF ForgetJournal
<1>28. CASE Release
  BY <1>28 DEF Release
<1>29. CASE RecoveryFails
  BY <1>29 DEF RecoveryFails
<1>30. CASE Kill
  BY <1>30 DEF Kill
<1>31. CASE Boot
  BY <1>31 DEF Boot
<1>32. CASE BootDone
  BY <1>32 DEF BootDone, Adopted
<1>33. CASE UNCHANGED vars
  BY <1>33 DEF vars
<1>34. QED
  BY <1>1, <1>2, <1>3, <1>4, <1>5, <1>6, <1>7, <1>8, <1>9, <1>10, <1>11, <1>12, <1>13, <1>14, <1>15, <1>16, <1>17, <1>18, <1>19, <1>20, <1>21, <1>22, <1>23, <1>24, <1>25, <1>26, <1>27, <1>28, <1>29, <1>30, <1>31, <1>32, <1>33 DEF Next, Others, Replacement, Recovery

\* A second failed call is needed to leave an uncommitted journal behind.
LEMMA ErrorStep ==
    ASSUME MaxErrors <= 1, TypeInv, TypeInv', GameInv, GameInv', SwapInv, ErrorInv, [Next]_vars
    PROVE  ErrorInv'
<1> USE CallersAssumption, ValuesAssumption, BoundsAssumption
    DEF ErrorInv, SwapInv, GameInv, GameStopped, NoneRunning, TypeInv, TypeOK, Row, Quiet,
        Replacing, Recovering, Idle, Free, Error, disk, bounds, Goto
<1>1. CASE StartGame
  BY <1>1 DEF StartGame, Running
<1>2. CASE StopGame
  BY <1>2 DEF StopGame, Stop
<1>3. CASE EditConfiguration
  BY <1>3 DEF EditConfiguration
<1>4. CASE NoticeCrash
  BY <1>4 DEF NoticeCrash
<1>5. CASE GameExit
  BY <1>5 DEF GameExit
<1>6. CASE Lookup
  BY <1>6 DEF Lookup
<1>7. CASE Begin
  BY <1>7 DEF Begin
<1>8. CASE ColdCopy
  BY <1>8 DEF ColdCopy, StopIfRunning, Stop, CopyPossible
<1>9. CASE ColdCopyFails
  BY <1>9 DEF ColdCopyFails, StopIfRunning, Stop, CopyPossible
<1>10. CASE Check
  BY <1>10 DEF Check
<1>11. CASE OpenJournal
  BY <1>11 DEF OpenJournal
<1>12. CASE WriteJournal
  BY <1>12 DEF WriteJournal
<1>13. CASE WriteJournalFails
  BY <1>13 DEF WriteJournalFails
<1>14. CASE MarkReplacing
  BY <1>14 DEF MarkReplacing
<1>15. CASE RemoveContainer
  BY <1>15 DEF RemoveContainer, Running
<1>16. CASE RetireLive
  BY <1>16 DEF RetireLive
<1>17. CASE PromoteStaged
  BY <1>17 DEF PromoteStaged
<1>18. CASE SaveConfiguration
  BY <1>18 DEF SaveConfiguration
<1>19. CASE CommitJournal
  BY <1>19 DEF CommitJournal
<1>20. CASE StepFails
  BY <1>20 DEF StepFails
<1>21. CASE ReadJournal
  BY <1>21 DEF ReadJournal
<1>22. CASE HaltContainer
  BY <1>22 DEF HaltContainer
<1>23. CASE ClearLive
  BY <1>23 DEF ClearLive
<1>24. CASE RenameBack
  BY <1>24 DEF RenameBack
<1>25. CASE RevertRow
  BY <1>25 DEF RevertRow
<1>26. CASE PurgePrevious
  BY <1>26 DEF PurgePrevious
<1>27. CASE ForgetJournal
  BY <1>27 DEF ForgetJournal
<1>28. CASE Release
  BY <1>28 DEF Release
<1>29. CASE RecoveryFails
  BY <1>29 DEF RecoveryFails
<1>30. CASE Kill
  BY <1>30 DEF Kill
<1>31. CASE Boot
  BY <1>31 DEF Boot
<1>32. CASE BootDone
  BY <1>32 DEF BootDone, Adopted
<1>33. CASE UNCHANGED vars
  BY <1>33 DEF vars
<1>34. QED
  BY <1>1, <1>2, <1>3, <1>4, <1>5, <1>6, <1>7, <1>8, <1>9, <1>10, <1>11, <1>12, <1>13, <1>14, <1>15, <1>16, <1>17, <1>18, <1>19, <1>20, <1>21, <1>22, <1>23, <1>24, <1>25, <1>26, <1>27, <1>28, <1>29, <1>30, <1>31, <1>32, <1>33 DEF Next, Others, Replacement, Recovery

-----------------------------------------------------------------------------
(***************************************************************************)
(* The theorems.                                                           *)
(***************************************************************************)

\* A stopped server with its own files, no journal and no operation.
LEMMA InitInv == Init => TypeInv /\ GameInv /\ SwapInv /\ ErrorInv
  BY CallersAssumption, ValuesAssumption, BoundsAssumption
  DEF Init, TypeInv, TypeOK, GameInv, SingleContainer, RowKnowsGame, GameStopped,
      NoneRunning, SwapInv, ErrorInv, World, Settings, Row, Conf, States, Directory,
      Replacing, Recovering, Idle, Running

\* The row, the journal and the directories keep their shape in every
\* execution, whatever a kill or an error interrupts: in particular the row
\* and the journal always parse as a configuration.
THEOREM TypeCorrectness == Spec => []TypeOK
<1>1. Spec => []TypeInv
  BY InitInv, TypeStep, PTL DEF Spec
<1>2. TypeInv => TypeOK
  BY DEF TypeInv
<1>3. QED
  BY <1>1, <1>2, PTL

\* While every replacement reads the row with the lock held, the layers that
\* do not count failed calls hold in every execution.
LEMMA Invariance ==
    ASSUME "route" \notin Callers
    PROVE  Spec => [](TypeInv /\ GameInv /\ SwapInv)
<1> DEFINE Inv == TypeInv /\ GameInv /\ SwapInv
<1>1. Init => Inv
  BY InitInv
<1>2. Inv /\ [Next]_vars => Inv'
  BY TypeStep, GameStep, SwapStep
<1>3. QED
  BY <1>1, <1>2, PTL DEF Spec

\* The live directory is never renamed or removed beside a running game,
\* however many kills and failed calls there are, as long as no replacement
\* starts from a row that was read before the lock was taken.
THEOREM StoppedWhileReplaced ==
    ASSUME "route" \notin Callers
    PROVE  Spec => NeverBesideRunningGame
<1>1. TypeInv /\ GameInv /\ SwapInv /\ [Next]_vars => [live' # live => NoneRunning]_vars
  <2> SUFFICES ASSUME TypeInv, GameInv, SwapInv, Next, live' # live PROVE NoneRunning
    BY DEF vars
  <2>1. RetireLive \/ PromoteStaged \/ ClearLive \/ RenameBack
    BY DEF Next, Others, Replacement, Recovery, StartGame, StopGame, EditConfiguration,
           NoticeCrash, GameExit, Lookup, Begin, ColdCopy, ColdCopyFails, Check, OpenJournal,
           WriteJournal, WriteJournalFails, MarkReplacing, RemoveContainer, SaveConfiguration,
           CommitJournal, StepFails, ReadJournal, HaltContainer, RevertRow, PurgePrevious,
           ForgetJournal, Release, RecoveryFails, Kill, Boot, BootDone, disk
  <2>2. QED
    BY <2>1 DEF RetireLive, PromoteStaged, ClearLive, RenameBack, GameInv, GameStopped, Replacing
<1>2. QED
  BY <1>1, Invariance, PTL DEF Spec, NeverBesideRunningGame, NoneRunning

\* The replacement implements its abstract specification: files and
\* configuration change together, at the moment the journal is committed.
THEOREM AtomicityRefined ==
    ASSUME "route" \notin Callers
    PROVE  Spec => ReplacesAtomically
<1>1. Init => Atomic!Init
  BY CallersAssumption, ValuesAssumption
  DEF Init, Atomic!Init, Atomic!Conf, Conf, World, Settings
<1>2. /\ TypeInv /\ GameInv /\ SwapInv
      /\ (TypeInv /\ GameInv /\ SwapInv)'
      /\ [Next]_vars
      => [Atomic!Next]_(Atomic!vars)
  BY ReplacementStep
<1>3. QED
  BY <1>1, <1>2, Invariance, PTL DEF Spec, ReplacesAtomically, Atomic!Spec

\* With at most one failed call, and any number of kills, a server that a
\* person can start has the complete files its configuration describes.
THEOREM StartableFilesMatch ==
    ASSUME "route" \notin Callers, MaxErrors <= 1
    PROVE  Spec => []FilesMatchConfiguration
<1> DEFINE Inv == TypeInv /\ GameInv /\ SwapInv /\ ErrorInv
<1>1. Init => Inv
  BY InitInv
<1>2. Inv /\ [Next]_vars => Inv'
  BY TypeStep, GameStep, SwapStep, ErrorStep
<1>3. Inv => FilesMatchConfiguration
  BY DEF SwapInv, ErrorInv, World, Settings, FilesMatchConfiguration, Free
<1>4. QED
  BY <1>1, <1>2, <1>3, PTL DEF Spec
=============================================================================
