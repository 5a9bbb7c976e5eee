--------------------------- MODULE MmioDriverProofs ---------------------------
(***************************************************************************)
(* Proofs about the accelerator driver, for both platforms, every poll     *)
(* limit, every set of capabilities and any interleaving of driver and     *)
(* accelerator.                                                            *)
(***************************************************************************)
EXTENDS MmioDriver, TLAPS

\* Call numbers stay in range when they wrap.
LEMMA NextIdIn == ASSUME NEW i \in Id PROVE NextId(i) \in Id
BY MmioDriverAssumption DEF Id, NextId

\* What the typing of the steps needs to know of the constants.
LEMMA Constants ==
  /\ NoJob \in Job
  /\ Kind = {"hash", "coef", "batch", "sec", "imm"}
  /\ Status = {"OK", "SOFT", "PROTOCOL", "HARDWARE", "INVALID", "TIMEOUT"}
  /\ \A j \in Job : j.input \in Id \cup {Unset}
  /\ Shake \in BOOLEAN
  /\ Polls \in Nat \ {0}
BY MmioDriverAssumption DEF NoJob, Job, Kind, Status

\* The accelerator and the driver start idle, with nothing kept.
LEMMA InitMmio == Init => MmioInv
<1> SUFFICES ASSUME Init PROVE MmioInv
  OBVIOUS
<1>1. FlagOK
  BY Zenon DEF Init, FlagOK
<1>2. ValueOK
  BY MmioDriverAssumption, Constants DEF Init, ValueOK, Id, Unset
<1>3. DriverInv /\ CoefInv /\ OwnResult /\ OwnCoefficients
  BY DEF Init, DriverInv, CoefInv, OwnResult, OwnCoefficients, Answered, Own
<1>4. QED
  BY <1>1, <1>2, <1>3 DEF MmioInv, TypeOK

\* Every step keeps the flags Boolean.
LEMMA StepFlags == FlagOK /\ [Next]_vars => FlagOK'
<1> SUFFICES ASSUME FlagOK, [Next]_vars PROVE FlagOK'
  OBVIOUS
<1>1. CASE Clear
  BY <1>1, Zenon
  DEF Clear, FlagOK, drv, req, hw, regs, flags
<1>2. CASE PrepareStatus
  BY <1>2, Zenon
  DEF PrepareStatus, Fail, FlagOK, drv, req, hw, regs, flags
<1>3. CASE WriteArgs
  BY <1>3, Zenon
  DEF WriteArgs, FlagOK, drv, req, hw, regs, flags
<1>4. CASE WriteInput
  BY <1>4, Zenon
  DEF WriteInput, FlagOK, drv, req, hw, regs, flags
<1>5. CASE Start
  BY <1>5, Zenon
  DEF Start, StartBusy, StartRejected, StartAccepted, FlagOK, drv, req, hw, regs, flags
<1>6. CASE Poll
  BY <1>6, Zenon
  DEF Poll, Fail, Tick, FlagOK, drv, req, hw, regs, flags
<1>7. CASE ReadResult
  BY <1>7, Zenon
  DEF ReadResult, FlagOK, drv, req, hw, regs, flags
<1>8. CASE Single
  BY <1>8, Zenon
  DEF Single, Free, Begin, FlagOK, drv, req, hw, regs, flags
<1>9. CASE CoefCall
  BY <1>9, Zenon
  DEF CoefCall, Free, Begin, FlagOK, drv, req, hw, regs, flags
<1>10. CASE CoefKept
  BY <1>10, Zenon
  DEF CoefKept, FlagOK, drv, req, hw, regs, flags
<1>11. CASE HashCall
  BY <1>11, Zenon
  DEF HashCall, Begin, FlagOK, drv, req, hw, regs, flags
<1>12. CASE HashDone
  BY <1>12, Zenon
  DEF HashDone, FlagOK, drv, req, hw, regs, flags
<1>13. CASE BatchCall
  BY <1>13, Zenon
  DEF BatchCall, Begin, FlagOK, drv, req, hw, regs, flags
<1>14. CASE EngineGo
  BY <1>14, Zenon
  DEF EngineGo, FlagOK, drv, req, hw, regs, flags
<1>15. CASE Finish
  BY <1>15, MmioDriverAssumption, Zenon
  DEF Finish, ReportsBusy, FlagOK, drv, req, hw, regs, flags
<1>16. CASE UNCHANGED vars
  BY <1>16, Zenon DEF FlagOK, drv, req, hw, regs, flags, vars
<1>17. QED
  BY <1>1, <1>2, <1>3, <1>4, <1>5, <1>6, <1>7, <1>8, <1>9, <1>10, <1>11, <1>12, <1>13,
     <1>14, <1>15, <1>16
  DEF Next, Driver, Request, Accelerator

\* Every step preserves the other types.
LEMMA StepValues == ValueOK /\ [Next]_vars => ValueOK'
<1> SUFFICES ASSUME ValueOK, [Next]_vars PROVE ValueOK'
  OBVIOUS
<1>1. CASE Clear
  BY <1>1, Constants
  DEF Clear, ValueOK, drv, req, hw, regs, flags
<1>2. CASE PrepareStatus
  BY <1>2, Constants
  DEF PrepareStatus, Fail, ValueOK, drv, req, hw, regs, flags
<1>3. CASE WriteArgs
  BY <1>3, Constants
  DEF WriteArgs, ValueOK, drv, req, hw, regs, flags
<1>4. CASE WriteInput
  BY <1>4, Constants
  DEF WriteInput, ValueOK, drv, req, hw, regs, flags
<1>5. CASE Start
  <2>1. CASE StartBusy
    BY <1>5, <2>1, Constants
    DEF Start, StartBusy, ValueOK, drv, req, hw, regs, flags
  <2>2. CASE StartRejected
    BY <1>5, <2>2, Constants
    DEF Start, StartRejected, ValueOK, drv, req, hw, regs, flags
  <2>3. CASE StartAccepted
    BY <1>5, <2>3, Constants
    DEF Start, StartAccepted, Job, ValueOK, drv, req, hw, regs, flags
  <2>4. QED
    BY <1>5, <2>1, <2>2, <2>3 DEF Start
<1>6. CASE Poll
  BY <1>6, Constants
  DEF Poll, Fail, Tick, ValueOK, drv, req, hw, regs, flags
<1>7. CASE ReadResult
  BY <1>7, Constants
  DEF ReadResult, ValueOK, drv, req, hw, regs, flags
<1>8. CASE Single
  BY <1>8, NextIdIn, Constants
  DEF Single, Free, Begin, ValueOK, drv, req, hw, regs, flags
<1>9. CASE CoefCall
  BY <1>9, NextIdIn, Constants
  DEF CoefCall, Free, Begin, ValueOK, drv, req, hw, regs, flags
<1>10. CASE CoefKept
  BY <1>10, Constants
  DEF CoefKept, ValueOK, drv, req, hw, regs, flags
<1>11. CASE HashCall
  BY <1>11, NextIdIn, Constants
  DEF HashCall, Begin, ValueOK, drv, req, hw, regs, flags
<1>12. CASE HashDone
  BY <1>12, Constants
  DEF HashDone, ValueOK, drv, req, hw, regs, flags
<1>13. CASE BatchCall
  BY <1>13, NextIdIn, Constants
  DEF BatchCall, Begin, ValueOK, drv, req, hw, regs, flags
<1>14. CASE EngineGo
  BY <1>14, Constants
  DEF EngineGo, ValueOK, drv, req, hw, regs, flags
<1>15. CASE Finish
  BY <1>15, Constants
  DEF Finish, ReportsBusy, ValueOK, drv, req, hw, regs, flags
<1>16. CASE UNCHANGED vars
  BY <1>16 DEF ValueOK, drv, req, hw, regs, flags, vars
<1>17. QED
  BY <1>1, <1>2, <1>3, <1>4, <1>5, <1>6, <1>7, <1>8, <1>9, <1>10, <1>11, <1>12, <1>13,
     <1>14, <1>15, <1>16
  DEF Next, Driver, Request, Accelerator

\* Every step preserves the driver's hold on the accelerator.
LEMMA StepDriver == ValueOK /\ DriverInv /\ OwnResult /\ [Next]_vars => DriverInv' /\ OwnResult'
<1> SUFFICES ASSUME ValueOK, DriverInv, OwnResult, [Next]_vars
             PROVE  DriverInv' /\ OwnResult'
  OBVIOUS
<1>1. CASE Clear
  BY <1>1
  DEF Clear, ValueOK, DriverInv, OwnResult, Own, Answered, Busy, drv, req, hw, regs, flags
<1>2. CASE PrepareStatus
  BY <1>2
  DEF PrepareStatus, Fail, ValueOK, DriverInv, OwnResult, Own, Answered, Busy, drv, req,
  hw, regs, flags
<1>3. CASE WriteArgs
  BY <1>3
  DEF WriteArgs, ValueOK, DriverInv, OwnResult, Own, Answered, Busy, drv, req, hw, regs,
  flags
<1>4. CASE WriteInput
  BY <1>4
  DEF WriteInput, ValueOK, DriverInv, OwnResult, Own, Answered, Busy, drv, req, hw,
  regs, flags
<1>5. CASE Start
  <2>1. CASE StartBusy
    BY <1>5, <2>1
    DEF Start, StartBusy, ValueOK, DriverInv, OwnResult, Own, Answered, Busy, drv, req,
    hw, regs, flags
  <2>2. CASE StartRejected
    BY <1>5, <2>2
    DEF Start, StartRejected, ValueOK, DriverInv, OwnResult, Own, Answered, Busy, drv,
    req, hw, regs, flags
  <2>3. CASE StartAccepted
    BY <1>5, <2>3
    DEF Start, StartAccepted, ValueOK, DriverInv, OwnResult, Own, Answered, Busy, drv,
    req, hw, regs, flags
  <2>4. QED
    BY <1>5, <2>1, <2>2, <2>3 DEF Start
<1>6. CASE Poll
  BY <1>6
  DEF Poll, Fail, Tick, ValueOK, DriverInv, OwnResult, Own, Answered, Busy, drv, req,
  hw, regs, flags
<1>7. CASE ReadResult
  BY <1>7
  DEF ReadResult, ValueOK, DriverInv, OwnResult, Own, Answered, Busy, drv, req, hw,
  regs, flags
<1>8. CASE Single
  BY <1>8
  DEF Single, Free, Begin, ValueOK, DriverInv, OwnResult, Own, Answered, Busy, drv, req,
  hw, regs, flags
<1>9. CASE CoefCall
  BY <1>9
  DEF CoefCall, Free, Begin, ValueOK, DriverInv, OwnResult, Own, Answered, Busy, drv,
  req, hw, regs, flags
<1>10. CASE CoefKept
  BY <1>10
  DEF CoefKept, ValueOK, DriverInv, OwnResult, Own, Answered, Busy, drv, req, hw, regs,
  flags
<1>11. CASE HashCall
  BY <1>11
  DEF HashCall, Begin, ValueOK, DriverInv, OwnResult, Own, Answered, Busy, drv, req, hw,
  regs, flags
<1>12. CASE HashDone
  BY <1>12
  DEF HashDone, ValueOK, DriverInv, OwnResult, Own, Answered, Busy, drv, req, hw, regs,
  flags
<1>13. CASE BatchCall
  BY <1>13
  DEF BatchCall, Begin, ValueOK, DriverInv, OwnResult, Own, Answered, Busy, drv, req,
  hw, regs, flags
<1>14. CASE EngineGo
  BY <1>14
  DEF EngineGo, ValueOK, DriverInv, OwnResult, Own, Answered, Busy, drv, req, hw, regs,
  flags
<1>15. CASE Finish
  BY <1>15
  DEF Finish, ReportsBusy, ValueOK, DriverInv, OwnResult, Own, Answered, Busy, drv, req,
  hw, regs, flags
<1>16. CASE UNCHANGED vars
  BY <1>16 DEF ValueOK, DriverInv, OwnResult, Own, Answered, Busy, drv, req, hw, regs,
     flags, vars
<1>17. QED
  BY <1>1, <1>2, <1>3, <1>4, <1>5, <1>6, <1>7, <1>8, <1>9, <1>10, <1>11, <1>12, <1>13,
     <1>14, <1>15, <1>16
  DEF Next, Driver, Request, Accelerator

\* Every step keeps track of where the request's coefficients are.
LEMMA StepCoef == MmioInv /\ [Next]_vars => CoefInv' /\ OwnCoefficients'
<1> SUFFICES ASSUME MmioInv, [Next]_vars PROVE CoefInv' /\ OwnCoefficients'
  OBVIOUS
<1> USE DEF MmioInv, TypeOK
<1>1. CASE Clear
  BY <1>1
  DEF Clear, ValueOK, DriverInv, CoefInv, OwnResult,
      OwnCoefficients, Own, Answered, Busy, drv, req, hw, regs, flags
<1>2. CASE PrepareStatus
  BY <1>2
  DEF PrepareStatus, Fail, ValueOK, DriverInv, CoefInv, OwnResult,
      OwnCoefficients, Own, Answered, Busy, drv, req, hw, regs, flags
<1>3. CASE WriteArgs
  BY <1>3
  DEF WriteArgs, ValueOK, DriverInv, CoefInv, OwnResult,
      OwnCoefficients, Own, Answered, Busy, drv, req, hw, regs, flags
<1>4. CASE WriteInput
  BY <1>4
  DEF WriteInput, ValueOK, DriverInv, CoefInv, OwnResult,
      OwnCoefficients, Own, Answered, Busy, drv, req, hw, regs, flags
<1>5. CASE Start
  <2>1. CASE StartBusy
    BY <1>5, <2>1
    DEF Start, StartBusy, ValueOK, DriverInv, CoefInv, OwnResult,
      OwnCoefficients, Own, Answered, Busy, drv, req, hw, regs, flags
  <2>2. CASE StartRejected
    BY <1>5, <2>2
    DEF Start, StartRejected, ValueOK, DriverInv, CoefInv, OwnResult,
      OwnCoefficients, Own, Answered, Busy, drv, req, hw, regs, flags
  <2>3. CASE StartAccepted
    BY <1>5, <2>3
    DEF Start, StartAccepted, ValueOK, DriverInv, CoefInv, OwnResult,
      OwnCoefficients, Own, Answered, Busy, drv, req, hw, regs, flags
  <2>4. QED
    BY <1>5, <2>1, <2>2, <2>3 DEF Start
<1>6. CASE Poll
  BY <1>6
  DEF Poll, Fail, Tick, ValueOK, DriverInv, CoefInv, OwnResult,
      OwnCoefficients, Own, Answered, Busy, drv, req, hw, regs, flags
<1>7. CASE ReadResult
  BY <1>7
  DEF ReadResult, ValueOK, DriverInv, CoefInv, OwnResult,
      OwnCoefficients, Own, Answered, Busy, drv, req, hw, regs, flags
<1>8. CASE Single
  BY <1>8
  DEF Single, Free, Begin, ValueOK, DriverInv, CoefInv, OwnResult,
      OwnCoefficients, Own, Answered, Busy, drv, req, hw, regs, flags
<1>9. CASE CoefCall
  BY <1>9
  DEF CoefCall, Free, Begin, ValueOK, DriverInv, CoefInv, OwnResult,
      OwnCoefficients, Own, Answered, Busy, drv, req, hw, regs, flags
<1>10. CASE CoefKept
  BY <1>10
  DEF CoefKept, ValueOK, DriverInv, CoefInv, OwnResult,
      OwnCoefficients, Own, Answered, Busy, drv, req, hw, regs, flags
<1>11. CASE HashCall
  BY <1>11
  DEF HashCall, Begin, ValueOK, DriverInv, CoefInv, OwnResult,
      OwnCoefficients, Own, Answered, Busy, drv, req, hw, regs, flags
<1>12. CASE HashDone
  BY <1>12
  DEF HashDone, ValueOK, DriverInv, CoefInv, OwnResult,
      OwnCoefficients, Own, Answered, Busy, drv, req, hw, regs, flags
<1>13. CASE BatchCall
  BY <1>13
  DEF BatchCall, Begin, ValueOK, DriverInv, CoefInv, OwnResult,
      OwnCoefficients, Own, Answered, Busy, drv, req, hw, regs, flags
<1>14. CASE EngineGo
  BY <1>14
  DEF EngineGo, ValueOK, DriverInv, CoefInv, OwnResult,
      OwnCoefficients, Own, Answered, Busy, drv, req, hw, regs, flags
<1>15. CASE Finish
  BY <1>15
  DEF Finish, ReportsBusy, ValueOK, DriverInv, CoefInv, OwnResult,
      OwnCoefficients, Own, Answered, Busy, drv, req, hw, regs, flags
<1>16. CASE UNCHANGED vars
  BY <1>16 DEF ValueOK, DriverInv, CoefInv, OwnResult,
      OwnCoefficients, Own, Answered, Busy, drv, req, hw, regs, flags, vars
<1>17. QED
  BY <1>1, <1>2, <1>3, <1>4, <1>5, <1>6, <1>7, <1>8, <1>9, <1>10, <1>11, <1>12, <1>13,
     <1>14, <1>15, <1>16
  DEF Next, Driver, Request, Accelerator

\* The invariant holds in every reachable state.
THEOREM MmioInductive == Spec => []MmioInv
<1>1. MmioInv /\ [Next]_vars => MmioInv'
  BY StepFlags, StepValues, StepDriver, StepCoef DEF MmioInv, TypeOK
<1>2. QED
  BY InitMmio, <1>1, PTL DEF Spec

\* The driver keeps to its poll budget and every value comes from a call.
THEOREM MmioTypes == Spec => []TypeOK
<1>1. MmioInv => TypeOK
  BY DEF MmioInv
<1>2. QED
  BY MmioInductive, <1>1, PTL

\* A call that returns OK returns the result of its own command on its own
\* registers, whatever timed out before.
THEOREM CallsGetOwnResult == Spec => []OwnResult
<1>1. MmioInv => OwnResult
  BY DEF MmioInv
<1>2. QED
  BY MmioInductive, <1>1, PTL

\* A returned signature was made with the coefficients of its own message.
THEOREM SignsOwnMessage == Spec => []OwnCoefficients
<1>1. MmioInv => OwnCoefficients
  BY DEF MmioInv
<1>2. QED
  BY MmioInductive, <1>1, PTL

\* No register is written and no START given while a command runs.
THEOREM WritesReachHardware == Spec => []NoDroppedWrite
<1>1. MmioInv => NoDroppedWrite
  BY DEF MmioInv, DriverInv, NoDroppedWrite, Busy
<1>2. QED
  BY MmioInductive, <1>1, PTL

\* Every step keeps a command from outliving its call unless the call gave up.
LEMMA StepLate == MmioInv /\ LateInv /\ [Next]_vars => LateInv'
<1> SUFFICES ASSUME MmioInv, LateInv, [Next]_vars PROVE LateInv'
  OBVIOUS
<1>0. /\ engine = "start" => pc = "poll"
      /\ pc \in {"args", "input", "start"} => engine = "idle" /\ ~done /\ ~err
      /\ pc = "poll" /\ engine # "idle" => ~done
      /\ pc = "read" => engine = "idle"
      /\ engine \in {"idle", "start", "run"}
      /\ Shake \in BOOLEAN
  BY MmioDriverAssumption DEF MmioInv, DriverInv, TypeOK, ValueOK
<1>1. CASE Clear
  BY <1>0, <1>1
  DEF Clear, LateInv, Busy, drv, req, hw, regs, flags
<1>2. CASE PrepareStatus
  BY <1>0, <1>2
  DEF PrepareStatus, Fail, LateInv, Busy, drv, req, hw, regs, flags
<1>3. CASE WriteArgs
  BY <1>0, <1>3
  DEF WriteArgs, LateInv, Busy, drv, req, hw, regs, flags
<1>4. CASE WriteInput
  BY <1>0, <1>4
  DEF WriteInput, LateInv, Busy, drv, req, hw, regs, flags
<1>5. CASE Start
  <2>1. CASE StartBusy
    BY <1>0, <1>5, <2>1
    DEF Start, StartBusy, LateInv, Busy, drv, req, hw, regs, flags
  <2>2. CASE StartRejected
    BY <1>0, <1>5, <2>2
    DEF Start, StartRejected, LateInv, Busy, drv, req, hw, regs, flags
  <2>3. CASE StartAccepted
    BY <1>0, <1>5, <2>3
    DEF Start, StartAccepted, LateInv, Busy, drv, req, hw, regs, flags
  <2>4. QED
    BY <1>5, <2>1, <2>2, <2>3 DEF Start
<1>6. CASE Poll
  BY <1>0, <1>6
  DEF Poll, Fail, Tick, LateInv, Busy, drv, req, hw, regs, flags
<1>7. CASE ReadResult
  BY <1>0, <1>7
  DEF ReadResult, LateInv, Busy, drv, req, hw, regs, flags
<1>8. CASE Single
  BY <1>0, <1>8
  DEF Single, Free, Begin, LateInv, Busy, drv, req, hw, regs, flags
<1>9. CASE CoefCall
  BY <1>0, <1>9
  DEF CoefCall, Free, Begin, LateInv, Busy, drv, req, hw, regs, flags
<1>10. CASE CoefKept
  BY <1>0, <1>10
  DEF CoefKept, LateInv, Busy, drv, req, hw, regs, flags
<1>11. CASE HashCall
  BY <1>0, <1>11
  DEF HashCall, Begin, LateInv, Busy, drv, req, hw, regs, flags
<1>12. CASE HashDone
  BY <1>0, <1>12
  DEF HashDone, LateInv, Busy, drv, req, hw, regs, flags
<1>13. CASE BatchCall
  BY <1>0, <1>13
  DEF BatchCall, Begin, LateInv, Busy, drv, req, hw, regs, flags
<1>14. CASE EngineGo
  BY <1>0, <1>14
  DEF EngineGo, LateInv, Busy, drv, req, hw, regs, flags
<1>15. CASE Finish
  BY <1>0, <1>15
  DEF Finish, ReportsBusy, LateInv, Busy, drv, req, hw, regs, flags
<1>16. CASE UNCHANGED vars
  BY <1>16 DEF LateInv, drv, req, hw, regs, flags, vars
<1>17. QED
  BY <1>1, <1>2, <1>3, <1>4, <1>5, <1>6, <1>7, <1>8, <1>9, <1>10, <1>11, <1>12, <1>13,
     <1>14, <1>15, <1>16
  DEF Next, Driver, Request, Accelerator

\* The only step that ends a call at its STATUS read with ERR_HARDWARE is a
\* STATUS that is not zero, and without a timeout before it STATUS is zero.
LEMMA RefusalStep ==
  MmioInv /\ LateInv /\ [Next]_vars =>
    [pc = "status" /\ pc' = "idle" /\ ret'.status = "HARDWARE" => late]_vars
<1> SUFFICES ASSUME MmioInv, LateInv, Next,
                    pc = "status", pc' = "idle", ret'.status = "HARDWARE", ~late
             PROVE  FALSE
  OBVIOUS
<1>1. engine = "idle" /\ ~done /\ ~err /\ ~Busy
  BY DEF LateInv, Busy
<1>2. PrepareStatus
  BY <1>1
  DEF Next, Driver, Request, Accelerator, Clear, WriteArgs, WriteInput, Start, Poll,
      ReadResult, Single, CoefCall, CoefKept, HashCall, HashDone, BatchCall, Free,
      EngineGo, Finish
<1>3. Fail("INVALID")
  BY <1>1, <1>2 DEF PrepareStatus
<1>4. QED
  BY <1>3 DEF Fail

\* The refusal of prepare_command is the trace of a timeout: without a command
\* that an earlier call gave up on, no call finds STATUS other than zero.
THEOREM RefusalMeansTimeout == Spec => RefusalNeedsTimeout
<1>1. Init => LateInv
  BY DEF Init, LateInv
<1>2. Spec => []LateInv
  BY MmioInductive, <1>1, StepLate, PTL DEF Spec
<1>3. QED
  BY MmioInductive, <1>2, RefusalStep, PTL DEF Spec, RefusalNeedsTimeout
===============================================================================
