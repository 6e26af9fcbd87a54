---------------------------- MODULE ExercisesProofs ----------------------------
(***************************************************************************)
(* The programs that stand alone, side by side as the runs check them: a   *)
(* behaviour of MCExercises is one of each program, so what is proved of a *)
(* program holds there, and the types and tables of all of them do.        *)
(***************************************************************************)
EXTENDS MCExercises, SharedDataProofs, SmallServerProofs, FileProofs

\* A program makes a step of its own, or none.
ProgramsStep ==
    /\ [Next]_vars /\ [QueueNext]_queueVars /\ [PoolNext]_poolVars /\ [SaleNext]_saleVars
    /\ [TransferNext]_transferVars /\ [ChatNext]_chatVars /\ [PairNext]_pairVars
    /\ [SemNext]_semVars /\ [WalkNext]_walkVars /\ [ListNext]_listVars

\* The program that runs makes its step, and the others none.
LEMMA OneSteps == ASSUME [ExercisesNext]_allVars PROVE ProgramsStep
<1>1. CASE UNCHANGED allVars
  BY <1>1 DEF allVars, ProgramsStep
<1>2. CASE Ring
  BY <1>2 DEF Ring, Others, ProgramsStep
<1>3. CASE Work
  BY <1>3 DEF Work, Others, ProgramsStep
<1>4. CASE Serve
  BY <1>4 DEF Serve, Others, ProgramsStep
<1>5. CASE SellTickets
  BY <1>5 DEF SellTickets, Others, ProgramsStep
<1>6. CASE Download
  BY <1>6 DEF Download, Others, ProgramsStep
<1>7. CASE Talk
  BY <1>7 DEF Talk, Others, ProgramsStep
<1>8. CASE TalkToOne
  BY <1>8 DEF TalkToOne, Others, ProgramsStep
<1>9. CASE Calculate
  BY <1>9 DEF Calculate, Others, ProgramsStep
<1>10. CASE ReadDirs
  BY <1>10 DEF ReadDirs, Others, ProgramsStep
<1>11. CASE KeepList
  BY <1>11 DEF KeepList, Others, ProgramsStep
<1> QED BY <1>1, <1>2, <1>3, <1>4, <1>5, <1>6, <1>7, <1>8, <1>9, <1>10, <1>11 DEF ExercisesNext

\* A behaviour of the instance is a behaviour of every program: the choices that
\* MCExercises settles, and the fairness, only leave out behaviours.
THEOREM ProgramsStandAlone ==
    ExercisesSpec => /\ Spec /\ QueueSpec /\ PoolSpec /\ SaleSpec /\ TransferSpec
                     /\ ChatSpec /\ PairSpec /\ SemSpec /\ WalkSpec /\ ListSpec
<1>1. ExercisesInit => /\ Init /\ QueueInit /\ PoolInit /\ SaleInit /\ TransferInit
                       /\ ChatInit /\ PairInit /\ SemInit /\ WalkInit /\ InitList
  BY DEF ExercisesInit
<1>2. [ExercisesNext]_allVars =>
         /\ [Next]_vars /\ [QueueNext]_queueVars /\ [PoolNext]_poolVars /\ [SaleNext]_saleVars
         /\ [TransferNext]_transferVars /\ [ChatNext]_chatVars /\ [PairNext]_pairVars
         /\ [SemNext]_semVars /\ [WalkNext]_walkVars /\ [ListNext]_listVars
  BY OneSteps DEF ProgramsStep
<1> QED BY <1>1, <1>2, PTL DEF ExercisesSpec, Spec, QueueSpec, PoolSpec, SaleSpec, TransferSpec,
           ChatSpec, PairSpec, SemSpec, WalkSpec, ListSpec

\* The types of the ring buffer, the queue, the pool, the ticket sale and the semaphores,
\* the tables of the chat servers, and the shape and the contents of the lists.
THEOREM StateKept == ExercisesSpec => []StateOK
<1>1. TypeOK /\ QueueTypeOK /\ QueueShape /\ PoolTypeOK /\ SaleTypeOK /\ ChatTableOK
         /\ PairTableOK /\ SemShape /\ ListHoldsContents => StateOK
  BY DEF StateOK
<1> QED BY <1>1, ProgramsStandAlone, RingTypeCorrect, QueueShapeKept, PoolTypeCorrect, SaleTyped,
           ChatTableTheorem, PairTableTheorem, SemaphoresBounded, ListHoldsTheorem, PTL
==============================================================================
