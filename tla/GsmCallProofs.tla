--------------------------- MODULE GsmCallProofs ---------------------------
(* Proofs about phone calls: type correctness, that no change of the phase *)
(* is lost, that "dialed" and "ended" alternate, that nobody writes after  *)
(* an end, and that the alarm's task waits for the end of its own call.    *)
(* IInv is inductive: its first part says when the module may be dialing,  *)
(* the next ones what the "gsm" task's local variables say of the phase it *)
(* will find, the last one whose end the alarm's task will be given.       *)
EXTENDS GsmCall, TLAPS

\* While call() is in progress no other call is handled.
DialingInv ==
    /\ command = "call" /\ line = "none" => actual = "NONE"
    /\ command = "wait_call_state" => line = "dialing" /\ actual = "NONE"

\* Either the "gsm" task is notified or it knows the actual phase.
KnownInv ==
    /\ gsm \notin {"snapshot", "dispatch", "end_call"} => gsmBits = {}
    /\ "CALL_STATE_CHANGED" \notin bits /\ "CALL_STATE_CHANGED" \notin gsmBits => handled = actual
    /\ "CALL_STATE_CHANGED" \notin bits /\ "CALL_STATE_CHANGED" \in gsmBits /\ gsm # "snapshot" => actualNow = actual

\* A phase seen as ENDED is ENDED until it is handled, and after SPEAKING comes ENDED.
SeenInv ==
    /\ gsmBits # {} /\ gsm # "snapshot" /\ actualNow = "ENDED" => actual = "ENDED"
    /\ gsmBits # {} /\ gsm # "snapshot" /\ actualNow = "SPEAKING" => actual \in {"SPEAKING", "ENDED"}
    /\ handled = "SPEAKING" => actual \in {"SPEAKING", "ENDED"}
    /\ gsmBits # {} /\ gsm # "snapshot" /\ handled = "SPEAKING" => actualNow \in {"SPEAKING", "ENDED"}
    /\ gsm \in {"ended", "stop"} => handled = "NONE"

\* The "gsm" task is dealing, or will deal, with a call that speaks or has spoken.
Speaking ==
    \/ actual = "SPEAKING" \/ handled = "SPEAKING"
    \/ gsmBits # {} /\ gsm # "snapshot" /\ actualNow = "SPEAKING"

\* The alarm's task has accepted the call and is about to speak.
Accepted == line = "answered" /\ IsDialing(actual)

\* The end of the call is about to be given to the alarm's task.
EndComes == gsm \in {"ended", "stop"}

\* As long as the module answers there is at most one call whose end the alarm's task was or
\* will be given, and none unless its method has succeeded.
OneEnd ==
    /\ service \in {"idle", "get_ctrl"} \/ (service = "result" /\ result # "success")
        => ~ended /\ ~EndComes /\ ~Speaking /\ ~Accepted
    /\ ended => ~EndComes
    /\ ended \/ EndComes => ~Speaking /\ ~Accepted
    /\ line \in {"incoming", "outgoing"} => ~IsDialing(actual)
    /\ command \notin {"none", "end_call"} => service = "result" /\ result = "none"
    /\ result # "none" => service = "result"

EndInv == faults = 0 => OneEnd

IInv == TypeOK /\ DialingInv /\ KnownInv /\ SeenInv /\ DialedThenEnded /\ EndInv

\* Every step leaves the driver's part typed.
LEMMA TypeDriverStep == IInv /\ [Next]_vars => TypeDriver'
<1> SUFFICES ASSUME IInv, [Next]_vars PROVE TypeDriver'
    OBVIOUS
<1> USE DEF IInv, TypeOK, TypeDriver, TypeTasks, Phase, Caller, Event, Line, Command, Wav, lineV,
    phaseV, commandV, faultV, gsmV, serviceV, menuV
<1>1. CASE Ring \/ RemoteEnd \/ KeyPressed \/ Malfunction
  <2>1. CASE Ring BY <2>1 DEF Ring, ChangeCallPhase, UnchangedPhase, LineEnds, EndPhase, IsDialing,
      IsOngoing, Others
  <2>2. CASE RemoteEnd BY <2>2 DEF RemoteEnd, ChangeCallPhase, UnchangedPhase, LineEnds, EndPhase,
      IsDialing, IsOngoing, Others
  <2>3. CASE KeyPressed BY <2>3 DEF KeyPressed, ChangeCallPhase, UnchangedPhase, LineEnds, EndPhase,
      IsDialing, IsOngoing, Others
  <2>4. CASE Malfunction BY <2>4 DEF Malfunction, ChangeCallPhase, UnchangedPhase, LineEnds,
      EndPhase, IsDialing, IsOngoing, Others, Fault
  <2> QED BY <1>1, <2>1, <2>2, <2>3, <2>4
<1>2. CASE IncomingSpeaking \/ CallStarted \/ DialingKnown \/ DialingFailed \/ AcceptDone \/
    RejectDone \/ EndDone \/ Reboot
  <2>1. CASE IncomingSpeaking BY <2>1 DEF IncomingSpeaking, ChangeCallPhase, UnchangedPhase,
      LineEnds, EndPhase, IsDialing, IsOngoing, Others, Return, Fault
  <2>2. CASE CallStarted BY <2>2 DEF CallStarted, ChangeCallPhase, UnchangedPhase, LineEnds,
      EndPhase, IsDialing, IsOngoing, Others, Return, Fault
  <2>3. CASE DialingKnown BY <2>3 DEF DialingKnown, ChangeCallPhase, UnchangedPhase, LineEnds,
      EndPhase, IsDialing, IsOngoing, Others, Return, Fault
  <2>4. CASE DialingFailed BY <2>4 DEF DialingFailed, ChangeCallPhase, UnchangedPhase, LineEnds,
      EndPhase, IsDialing, IsOngoing, Others, Return, Fault
  <2>5. CASE AcceptDone BY <2>5 DEF AcceptDone, ChangeCallPhase, UnchangedPhase, LineEnds, EndPhase,
      IsDialing, IsOngoing, Others, Return, Fault
  <2>6. CASE RejectDone BY <2>6 DEF RejectDone, ChangeCallPhase, UnchangedPhase, LineEnds, EndPhase,
      IsDialing, IsOngoing, Others, Return, Fault
  <2>7. CASE EndDone BY <2>7 DEF EndDone, ChangeCallPhase, UnchangedPhase, LineEnds, EndPhase,
      IsDialing, IsOngoing, Others, Return, Fault
  <2>8. CASE Reboot BY <2>8 DEF Reboot, ChangeCallPhase, UnchangedPhase, LineEnds, EndPhase,
      IsDialing, IsOngoing, Others, Return, Fault
  <2> QED BY <1>2, <2>1, <2>2, <2>3, <2>4, <2>5, <2>6, <2>7, <2>8
<1>3. CASE Wake \/ Snapshot \/ HandleKey \/ GsmEndCall \/ HandleRinging \/ HandleSpeaking \/
    HandleEnded \/ HandleOther \/ StopChoice \/ NotifyEnded
  <2>1. CASE Wake BY <2>1 DEF Wake, Dispatching, HandlesPhase, Dispatched, Remaining, Leave, Play,
      PlayerFree, CtrlFree, Driven, IsNew
  <2>2. CASE Snapshot BY <2>2 DEF Snapshot, Dispatching, HandlesPhase, Dispatched, Remaining, Leave,
      Play, PlayerFree, CtrlFree, Driven, IsNew
  <2>3. CASE HandleKey BY <2>3 DEF HandleKey, Dispatching, HandlesPhase, Dispatched, Remaining,
      Leave, Play, PlayerFree, CtrlFree, Driven, IsNew
  <2>4. CASE GsmEndCall BY <2>4 DEF GsmEndCall, Dispatching, HandlesPhase, Dispatched, Remaining,
      Leave, Play, PlayerFree, CtrlFree, Driven, IsNew
  <2>5. CASE HandleRinging BY <2>5 DEF HandleRinging, Dispatching, HandlesPhase, Dispatched,
      Remaining, Leave, Play, PlayerFree, CtrlFree, Driven, IsNew
  <2>6. CASE HandleSpeaking BY <2>6 DEF HandleSpeaking, Dispatching, HandlesPhase, Dispatched,
      Remaining, Leave, Play, PlayerFree, CtrlFree, Driven, IsNew
  <2>7. CASE HandleEnded BY <2>7 DEF HandleEnded, Dispatching, HandlesPhase, Dispatched, Remaining,
      Leave, Play, PlayerFree, CtrlFree, Driven, IsNew
  <2>8. CASE HandleOther BY <2>8 DEF HandleOther, Dispatching, HandlesPhase, Dispatched, Remaining,
      Leave, Play, PlayerFree, CtrlFree, Driven, IsNew
  <2>9. CASE StopChoice BY <2>9 DEF StopChoice, Dispatching, HandlesPhase, Dispatched, Remaining,
      Leave, Play, PlayerFree, CtrlFree, Driven, IsNew
  <2>10. CASE NotifyEnded BY <2>10 DEF NotifyEnded, Dispatching, HandlesPhase, Dispatched,
      Remaining, Leave, Play, PlayerFree, CtrlFree, Driven, IsNew
  <2> QED BY <1>3, <2>1, <2>2, <2>3, <2>4, <2>5, <2>6, <2>7, <2>8, <2>9, <2>10
<1>4. CASE StartAnswer \/ StartCall \/ Invoke \/ TakeResult \/ WaitCallEnd \/ Played \/
    ChoiceTimeoutElapsed
  <2>1. CASE StartAnswer BY <2>1 DEF StartAnswer, Called, PlayerFree, CtrlFree
  <2>2. CASE StartCall BY <2>2 DEF StartCall, Called, PlayerFree, CtrlFree
  <2>3. CASE Invoke BY <2>3 DEF Invoke, Called, PlayerFree, CtrlFree
  <2>4. CASE TakeResult BY <2>4 DEF TakeResult, Called, PlayerFree, CtrlFree
  <2>5. CASE WaitCallEnd BY <2>5 DEF WaitCallEnd, Called, PlayerFree, CtrlFree
  <2>6. CASE Played BY <2>6 DEF Played, Called, PlayerFree, CtrlFree
  <2>7. CASE ChoiceTimeoutElapsed BY <2>7 DEF ChoiceTimeoutElapsed, Called, PlayerFree, CtrlFree
  <2> QED BY <1>4, <2>1, <2>2, <2>3, <2>4, <2>5, <2>6, <2>7
<1>5. ASSUME NEW who \in Callers, IncomingCall(who) PROVE TypeDriver'
  BY <1>5 DEF IncomingCall, ChangeCallPhase, UnchangedPhase, LineEnds, EndPhase, IsDialing,
      IsOngoing, Others
<1>6. ASSUME NEW t \in enders, EndCall(t) PROVE TypeDriver'
  BY <1>6 DEF EndCall, Called, PlayerFree, CtrlFree
<1>7. CASE UNCHANGED vars BY <1>7 DEF vars
<1> QED BY <1>1, <1>2, <1>3, <1>4, <1>5, <1>6, <1>7 DEF Next, Module, Driver, Gsm, Service, EndCalls

\* A step leaves the faults or is one more.
LEMMA FaultsChange == IInv /\ [Next]_vars => (faults' = faults \/ Fault)
<1> SUFFICES ASSUME IInv, [Next]_vars PROVE (faults' = faults \/ Fault)
    OBVIOUS
<1> USE DEF faultV, commandV, Others, Called, Driven
<1>1. CASE Ring \/ RemoteEnd \/ KeyPressed \/ Malfunction
  <2>1. CASE Ring BY <2>1 DEF Ring
  <2>2. CASE RemoteEnd BY <2>2 DEF RemoteEnd
  <2>3. CASE KeyPressed BY <2>3 DEF KeyPressed
  <2>4. CASE Malfunction BY <2>4 DEF Malfunction, Fault
  <2> QED BY <1>1, <2>1, <2>2, <2>3, <2>4
<1>2. CASE IncomingSpeaking \/ CallStarted \/ DialingKnown \/ DialingFailed \/ AcceptDone \/
    RejectDone \/ EndDone \/ Reboot
  <2>1. CASE IncomingSpeaking BY <2>1 DEF IncomingSpeaking, Fault
  <2>2. CASE CallStarted BY <2>2 DEF CallStarted, Fault
  <2>3. CASE DialingKnown BY <2>3 DEF DialingKnown, Fault
  <2>4. CASE DialingFailed BY <2>4 DEF DialingFailed, Fault
  <2>5. CASE AcceptDone BY <2>5 DEF AcceptDone, Fault
  <2>6. CASE RejectDone BY <2>6 DEF RejectDone, Fault
  <2>7. CASE EndDone BY <2>7 DEF EndDone, Fault
  <2>8. CASE Reboot BY <2>8 DEF Reboot, Fault
  <2> QED BY <1>2, <2>1, <2>2, <2>3, <2>4, <2>5, <2>6, <2>7, <2>8
<1>3. CASE Wake \/ Snapshot \/ HandleKey \/ GsmEndCall \/ HandleRinging \/ HandleSpeaking \/
    HandleEnded \/ HandleOther \/ StopChoice \/ NotifyEnded
  <2>1. CASE Wake BY <2>1 DEF Wake
  <2>2. CASE Snapshot BY <2>2 DEF Snapshot
  <2>3. CASE HandleKey BY <2>3 DEF HandleKey
  <2>4. CASE GsmEndCall BY <2>4 DEF GsmEndCall
  <2>5. CASE HandleRinging BY <2>5 DEF HandleRinging
  <2>6. CASE HandleSpeaking BY <2>6 DEF HandleSpeaking
  <2>7. CASE HandleEnded BY <2>7 DEF HandleEnded
  <2>8. CASE HandleOther BY <2>8 DEF HandleOther
  <2>9. CASE StopChoice BY <2>9 DEF StopChoice
  <2>10. CASE NotifyEnded BY <2>10 DEF NotifyEnded
  <2> QED BY <1>3, <2>1, <2>2, <2>3, <2>4, <2>5, <2>6, <2>7, <2>8, <2>9, <2>10
<1>4. CASE StartAnswer \/ StartCall \/ Invoke \/ TakeResult \/ WaitCallEnd \/ Played \/
    ChoiceTimeoutElapsed
  <2>1. CASE StartAnswer BY <2>1 DEF StartAnswer
  <2>2. CASE StartCall BY <2>2 DEF StartCall
  <2>3. CASE Invoke BY <2>3 DEF Invoke
  <2>4. CASE TakeResult BY <2>4 DEF TakeResult
  <2>5. CASE WaitCallEnd BY <2>5 DEF WaitCallEnd
  <2>6. CASE Played BY <2>6 DEF Played
  <2>7. CASE ChoiceTimeoutElapsed BY <2>7 DEF ChoiceTimeoutElapsed
  <2> QED BY <1>4, <2>1, <2>2, <2>3, <2>4, <2>5, <2>6, <2>7
<1>5. ASSUME NEW who \in Callers, IncomingCall(who) PROVE (faults' = faults \/ Fault)
  BY <1>5 DEF IncomingCall
<1>6. ASSUME NEW t \in enders, EndCall(t) PROVE (faults' = faults \/ Fault)
  BY <1>6 DEF EndCall
<1>7. CASE UNCHANGED vars BY <1>7 DEF vars
<1> QED BY <1>1, <1>2, <1>3, <1>4, <1>5, <1>6, <1>7 DEF Next, Module, Driver, Gsm, Service, EndCalls

\* The faults stay bounded.
LEMMA TypeFaultsStep == IInv /\ [Next]_vars => TypeFaults'
<1> SUFFICES ASSUME IInv, [Next]_vars PROVE TypeFaults'
    OBVIOUS
<1>1. faults \in 0..MaxFaults
  BY DEF IInv, TypeOK, TypeFaults
<1>2. faults' = faults \/ Fault
  BY FaultsChange
<1>3. CASE faults' = faults
  BY <1>1, <1>3 DEF TypeFaults
<1>4. CASE Fault
  <2>1. faults < MaxFaults /\ faults' = faults + 1
    BY <1>4 DEF Fault
  <2> QED BY <1>1, <2>1, MaxFaultsAssumption DEF TypeFaults
<1> QED BY <1>2, <1>3, <1>4

\* Every step leaves the tasks' part typed.
LEMMA TypeTasksStep == IInv /\ [Next]_vars => TypeTasks'
<1> SUFFICES ASSUME IInv, [Next]_vars PROVE TypeTasks'
    OBVIOUS
<1> USE DEF IInv, TypeOK, TypeDriver, TypeTasks, SeenInv, Phase, Caller, Event, Line, Command, Wav,
    lineV, phaseV, commandV, faultV, gsmV, serviceV, menuV
<1>1. CASE Ring \/ RemoteEnd \/ KeyPressed \/ Malfunction
  <2>1. CASE Ring BY <2>1 DEF Ring, ChangeCallPhase, UnchangedPhase, LineEnds, EndPhase, IsDialing,
      IsOngoing, Others
  <2>2. CASE RemoteEnd BY <2>2 DEF RemoteEnd, ChangeCallPhase, UnchangedPhase, LineEnds, EndPhase,
      IsDialing, IsOngoing, Others
  <2>3. CASE KeyPressed BY <2>3 DEF KeyPressed, ChangeCallPhase, UnchangedPhase, LineEnds, EndPhase,
      IsDialing, IsOngoing, Others
  <2>4. CASE Malfunction BY <2>4 DEF Malfunction, ChangeCallPhase, UnchangedPhase, LineEnds,
      EndPhase, IsDialing, IsOngoing, Others, Fault
  <2> QED BY <1>1, <2>1, <2>2, <2>3, <2>4
<1>2. CASE IncomingSpeaking \/ CallStarted \/ DialingKnown \/ DialingFailed \/ AcceptDone \/
    RejectDone \/ EndDone \/ Reboot
  <2>1. CASE IncomingSpeaking BY <2>1 DEF IncomingSpeaking, ChangeCallPhase, UnchangedPhase,
      LineEnds, EndPhase, IsDialing, IsOngoing, Others, Return, Fault
  <2>2. CASE CallStarted BY <2>2 DEF CallStarted, ChangeCallPhase, UnchangedPhase, LineEnds,
      EndPhase, IsDialing, IsOngoing, Others, Return, Fault
  <2>3. CASE DialingKnown BY <2>3 DEF DialingKnown, ChangeCallPhase, UnchangedPhase, LineEnds,
      EndPhase, IsDialing, IsOngoing, Others, Return, Fault
  <2>4. CASE DialingFailed BY <2>4 DEF DialingFailed, ChangeCallPhase, UnchangedPhase, LineEnds,
      EndPhase, IsDialing, IsOngoing, Others, Return, Fault
  <2>5. CASE AcceptDone BY <2>5 DEF AcceptDone, ChangeCallPhase, UnchangedPhase, LineEnds, EndPhase,
      IsDialing, IsOngoing, Others, Return, Fault
  <2>6. CASE RejectDone BY <2>6 DEF RejectDone, ChangeCallPhase, UnchangedPhase, LineEnds, EndPhase,
      IsDialing, IsOngoing, Others, Return, Fault
  <2>7. CASE EndDone BY <2>7 DEF EndDone, ChangeCallPhase, UnchangedPhase, LineEnds, EndPhase,
      IsDialing, IsOngoing, Others, Return, Fault
  <2>8. CASE Reboot BY <2>8 DEF Reboot, ChangeCallPhase, UnchangedPhase, LineEnds, EndPhase,
      IsDialing, IsOngoing, Others, Return, Fault
  <2> QED BY <1>2, <2>1, <2>2, <2>3, <2>4, <2>5, <2>6, <2>7, <2>8
<1>3. CASE Wake \/ Snapshot \/ HandleKey \/ GsmEndCall \/ HandleRinging \/ HandleSpeaking \/
    HandleEnded \/ HandleOther \/ StopChoice \/ NotifyEnded
  <2>1. CASE Wake BY <2>1 DEF Wake, Dispatching, HandlesPhase, Dispatched, Remaining, Leave, Play,
      PlayerFree, CtrlFree, Driven, IsNew
  <2>2. CASE Snapshot BY <2>2 DEF Snapshot, Dispatching, HandlesPhase, Dispatched, Remaining, Leave,
      Play, PlayerFree, CtrlFree, Driven, IsNew
  <2>3. CASE HandleKey BY <2>3 DEF HandleKey, Dispatching, HandlesPhase, Dispatched, Remaining,
      Leave, Play, PlayerFree, CtrlFree, Driven, IsNew
  <2>4. CASE GsmEndCall BY <2>4 DEF GsmEndCall, Dispatching, HandlesPhase, Dispatched, Remaining,
      Leave, Play, PlayerFree, CtrlFree, Driven, IsNew
  <2>5. CASE HandleRinging BY <2>5 DEF HandleRinging, Dispatching, HandlesPhase, Dispatched,
      Remaining, Leave, Play, PlayerFree, CtrlFree, Driven, IsNew
  <2>6. CASE HandleSpeaking BY <2>6 DEF HandleSpeaking, Dispatching, HandlesPhase, Dispatched,
      Remaining, Leave, Play, PlayerFree, CtrlFree, Driven, IsNew
  <2>7. CASE HandleEnded BY <2>7 DEF HandleEnded, Dispatching, HandlesPhase, Dispatched, Remaining,
      Leave, Play, PlayerFree, CtrlFree, Driven, IsNew
  <2>8. CASE HandleOther BY <2>8 DEF HandleOther, Dispatching, HandlesPhase, Dispatched, Remaining,
      Leave, Play, PlayerFree, CtrlFree, Driven, IsNew
  <2>9. CASE StopChoice BY <2>9 DEF StopChoice, Dispatching, HandlesPhase, Dispatched, Remaining,
      Leave, Play, PlayerFree, CtrlFree, Driven, IsNew
  <2>10. CASE NotifyEnded BY <2>10 DEF NotifyEnded, Dispatching, HandlesPhase, Dispatched,
      Remaining, Leave, Play, PlayerFree, CtrlFree, Driven, IsNew
  <2> QED BY <1>3, <2>1, <2>2, <2>3, <2>4, <2>5, <2>6, <2>7, <2>8, <2>9, <2>10
<1>4. CASE StartAnswer \/ StartCall \/ Invoke \/ TakeResult \/ WaitCallEnd \/ Played \/
    ChoiceTimeoutElapsed
  <2>1. CASE StartAnswer BY <2>1 DEF StartAnswer, Called, PlayerFree, CtrlFree
  <2>2. CASE StartCall BY <2>2 DEF StartCall, Called, PlayerFree, CtrlFree
  <2>3. CASE Invoke BY <2>3 DEF Invoke, Called, PlayerFree, CtrlFree
  <2>4. CASE TakeResult BY <2>4 DEF TakeResult, Called, PlayerFree, CtrlFree
  <2>5. CASE WaitCallEnd BY <2>5 DEF WaitCallEnd, Called, PlayerFree, CtrlFree
  <2>6. CASE Played BY <2>6 DEF Played, Called, PlayerFree, CtrlFree
  <2>7. CASE ChoiceTimeoutElapsed BY <2>7 DEF ChoiceTimeoutElapsed, Called, PlayerFree, CtrlFree
  <2> QED BY <1>4, <2>1, <2>2, <2>3, <2>4, <2>5, <2>6, <2>7
<1>5. ASSUME NEW who \in Callers, IncomingCall(who) PROVE TypeTasks'
  BY <1>5 DEF IncomingCall, ChangeCallPhase, UnchangedPhase, LineEnds, EndPhase, IsDialing,
      IsOngoing, Others
<1>6. ASSUME NEW t \in enders, EndCall(t) PROVE TypeTasks'
  BY <1>6 DEF EndCall, Called, PlayerFree, CtrlFree
<1>7. CASE UNCHANGED vars BY <1>7 DEF vars
<1> QED BY <1>1, <1>2, <1>3, <1>4, <1>5, <1>6, <1>7 DEF Next, Module, Driver, Gsm, Service, EndCalls

\* Every step leaves the flags typed.
LEMMA TypeFlagsStep == IInv /\ [Next]_vars => TypeFlags'
<1> SUFFICES ASSUME IInv, [Next]_vars PROVE TypeFlags'
    OBVIOUS
<1> USE DEF IInv, TypeOK, TypeFlags, lineV, phaseV, commandV, faultV, gsmV, serviceV, menuV
<1>1. CASE Ring \/ RemoteEnd \/ KeyPressed \/ Malfunction
  <2>1. CASE Ring BY <2>1 DEF Ring, ChangeCallPhase, UnchangedPhase, LineEnds, EndPhase, IsDialing,
      IsOngoing, Others
  <2>2. CASE RemoteEnd BY <2>2 DEF RemoteEnd, ChangeCallPhase, UnchangedPhase, LineEnds, EndPhase,
      IsDialing, IsOngoing, Others
  <2>3. CASE KeyPressed BY <2>3 DEF KeyPressed, ChangeCallPhase, UnchangedPhase, LineEnds, EndPhase,
      IsDialing, IsOngoing, Others
  <2>4. CASE Malfunction BY <2>4 DEF Malfunction, ChangeCallPhase, UnchangedPhase, LineEnds,
      EndPhase, IsDialing, IsOngoing, Others, Fault
  <2> QED BY <1>1, <2>1, <2>2, <2>3, <2>4
<1>2. CASE IncomingSpeaking \/ CallStarted \/ DialingKnown \/ DialingFailed \/ AcceptDone \/
    RejectDone \/ EndDone \/ Reboot
  <2>1. CASE IncomingSpeaking BY <2>1 DEF IncomingSpeaking, ChangeCallPhase, UnchangedPhase,
      LineEnds, EndPhase, IsDialing, IsOngoing, Others, Return, Fault
  <2>2. CASE CallStarted BY <2>2 DEF CallStarted, ChangeCallPhase, UnchangedPhase, LineEnds,
      EndPhase, IsDialing, IsOngoing, Others, Return, Fault
  <2>3. CASE DialingKnown BY <2>3 DEF DialingKnown, ChangeCallPhase, UnchangedPhase, LineEnds,
      EndPhase, IsDialing, IsOngoing, Others, Return, Fault
  <2>4. CASE DialingFailed BY <2>4 DEF DialingFailed, ChangeCallPhase, UnchangedPhase, LineEnds,
      EndPhase, IsDialing, IsOngoing, Others, Return, Fault
  <2>5. CASE AcceptDone BY <2>5 DEF AcceptDone, ChangeCallPhase, UnchangedPhase, LineEnds, EndPhase,
      IsDialing, IsOngoing, Others, Return, Fault
  <2>6. CASE RejectDone BY <2>6 DEF RejectDone, ChangeCallPhase, UnchangedPhase, LineEnds, EndPhase,
      IsDialing, IsOngoing, Others, Return, Fault
  <2>7. CASE EndDone BY <2>7 DEF EndDone, ChangeCallPhase, UnchangedPhase, LineEnds, EndPhase,
      IsDialing, IsOngoing, Others, Return, Fault
  <2>8. CASE Reboot BY <2>8 DEF Reboot, ChangeCallPhase, UnchangedPhase, LineEnds, EndPhase,
      IsDialing, IsOngoing, Others, Return, Fault
  <2> QED BY <1>2, <2>1, <2>2, <2>3, <2>4, <2>5, <2>6, <2>7, <2>8
<1>3. CASE Wake \/ Snapshot \/ HandleKey \/ GsmEndCall \/ HandleRinging \/ HandleSpeaking \/
    HandleEnded \/ HandleOther \/ StopChoice \/ NotifyEnded
  <2>1. CASE Wake BY <2>1 DEF Wake, Dispatching, HandlesPhase, Dispatched, Remaining, Leave, Play,
      PlayerFree, CtrlFree, Driven, IsNew
  <2>2. CASE Snapshot BY <2>2 DEF Snapshot, Dispatching, HandlesPhase, Dispatched, Remaining, Leave,
      Play, PlayerFree, CtrlFree, Driven, IsNew
  <2>3. CASE HandleKey BY <2>3 DEF HandleKey, Dispatching, HandlesPhase, Dispatched, Remaining,
      Leave, Play, PlayerFree, CtrlFree, Driven, IsNew
  <2>4. CASE GsmEndCall BY <2>4 DEF GsmEndCall, Dispatching, HandlesPhase, Dispatched, Remaining,
      Leave, Play, PlayerFree, CtrlFree, Driven, IsNew
  <2>5. CASE HandleRinging BY <2>5 DEF HandleRinging, Dispatching, HandlesPhase, Dispatched,
      Remaining, Leave, Play, PlayerFree, CtrlFree, Driven, IsNew
  <2>6. CASE HandleSpeaking BY <2>6 DEF HandleSpeaking, Dispatching, HandlesPhase, Dispatched,
      Remaining, Leave, Play, PlayerFree, CtrlFree, Driven, IsNew
  <2>7. CASE HandleEnded BY <2>7 DEF HandleEnded, Dispatching, HandlesPhase, Dispatched, Remaining,
      Leave, Play, PlayerFree, CtrlFree, Driven, IsNew
  <2>8. CASE HandleOther BY <2>8 DEF HandleOther, Dispatching, HandlesPhase, Dispatched, Remaining,
      Leave, Play, PlayerFree, CtrlFree, Driven, IsNew
  <2>9. CASE StopChoice BY <2>9 DEF StopChoice, Dispatching, HandlesPhase, Dispatched, Remaining,
      Leave, Play, PlayerFree, CtrlFree, Driven, IsNew
  <2>10. CASE NotifyEnded BY <2>10 DEF NotifyEnded, Dispatching, HandlesPhase, Dispatched,
      Remaining, Leave, Play, PlayerFree, CtrlFree, Driven, IsNew
  <2> QED BY <1>3, <2>1, <2>2, <2>3, <2>4, <2>5, <2>6, <2>7, <2>8, <2>9, <2>10
<1>4. CASE StartAnswer \/ StartCall \/ Invoke \/ TakeResult \/ WaitCallEnd \/ Played \/
    ChoiceTimeoutElapsed
  <2>1. CASE StartAnswer BY <2>1 DEF StartAnswer, Called, PlayerFree, CtrlFree
  <2>2. CASE StartCall BY <2>2 DEF StartCall, Called, PlayerFree, CtrlFree
  <2>3. CASE Invoke BY <2>3 DEF Invoke, Called, PlayerFree, CtrlFree
  <2>4. CASE TakeResult BY <2>4 DEF TakeResult, Called, PlayerFree, CtrlFree
  <2>5. CASE WaitCallEnd BY <2>5 DEF WaitCallEnd, Called, PlayerFree, CtrlFree
  <2>6. CASE Played BY <2>6 DEF Played, Called, PlayerFree, CtrlFree
  <2>7. CASE ChoiceTimeoutElapsed BY <2>7 DEF ChoiceTimeoutElapsed, Called, PlayerFree, CtrlFree
  <2> QED BY <1>4, <2>1, <2>2, <2>3, <2>4, <2>5, <2>6, <2>7
<1>5. ASSUME NEW who \in Callers, IncomingCall(who) PROVE TypeFlags'
  BY <1>5 DEF IncomingCall, ChangeCallPhase, UnchangedPhase, LineEnds, EndPhase, IsDialing,
      IsOngoing, Others
<1>6. ASSUME NEW t \in enders, EndCall(t) PROVE TypeFlags'
  BY <1>6 DEF EndCall, Called, PlayerFree, CtrlFree
<1>7. CASE UNCHANGED vars BY <1>7 DEF vars
<1> QED BY <1>1, <1>2, <1>3, <1>4, <1>5, <1>6, <1>7 DEF Next, Module, Driver, Gsm, Service, EndCalls

\* Every step leaves the sets typed.
LEMMA TypeSetsStep == IInv /\ [Next]_vars => TypeSets'
<1> SUFFICES ASSUME IInv, [Next]_vars PROVE TypeSets'
    OBVIOUS
<1> USE DEF IInv, TypeOK, TypeSets, Event, lineV, phaseV, commandV, faultV, gsmV, serviceV, menuV
<1>1. CASE Ring \/ RemoteEnd \/ KeyPressed \/ Malfunction
  <2>1. CASE Ring BY <2>1 DEF Ring, ChangeCallPhase, UnchangedPhase, LineEnds, EndPhase, IsDialing,
      IsOngoing, Others
  <2>2. CASE RemoteEnd BY <2>2 DEF RemoteEnd, ChangeCallPhase, UnchangedPhase, LineEnds, EndPhase,
      IsDialing, IsOngoing, Others
  <2>3. CASE KeyPressed BY <2>3 DEF KeyPressed, ChangeCallPhase, UnchangedPhase, LineEnds, EndPhase,
      IsDialing, IsOngoing, Others
  <2>4. CASE Malfunction BY <2>4 DEF Malfunction, ChangeCallPhase, UnchangedPhase, LineEnds,
      EndPhase, IsDialing, IsOngoing, Others, Fault
  <2> QED BY <1>1, <2>1, <2>2, <2>3, <2>4
<1>2. CASE IncomingSpeaking \/ CallStarted \/ DialingKnown \/ DialingFailed \/ AcceptDone \/
    RejectDone \/ EndDone \/ Reboot
  <2>1. CASE IncomingSpeaking BY <2>1 DEF IncomingSpeaking, ChangeCallPhase, UnchangedPhase,
      LineEnds, EndPhase, IsDialing, IsOngoing, Others, Return, Fault
  <2>2. CASE CallStarted BY <2>2 DEF CallStarted, ChangeCallPhase, UnchangedPhase, LineEnds,
      EndPhase, IsDialing, IsOngoing, Others, Return, Fault
  <2>3. CASE DialingKnown BY <2>3 DEF DialingKnown, ChangeCallPhase, UnchangedPhase, LineEnds,
      EndPhase, IsDialing, IsOngoing, Others, Return, Fault
  <2>4. CASE DialingFailed BY <2>4 DEF DialingFailed, ChangeCallPhase, UnchangedPhase, LineEnds,
      EndPhase, IsDialing, IsOngoing, Others, Return, Fault
  <2>5. CASE AcceptDone BY <2>5 DEF AcceptDone, ChangeCallPhase, UnchangedPhase, LineEnds, EndPhase,
      IsDialing, IsOngoing, Others, Return, Fault
  <2>6. CASE RejectDone BY <2>6 DEF RejectDone, ChangeCallPhase, UnchangedPhase, LineEnds, EndPhase,
      IsDialing, IsOngoing, Others, Return, Fault
  <2>7. CASE EndDone BY <2>7 DEF EndDone, ChangeCallPhase, UnchangedPhase, LineEnds, EndPhase,
      IsDialing, IsOngoing, Others, Return, Fault
  <2>8. CASE Reboot BY <2>8 DEF Reboot, ChangeCallPhase, UnchangedPhase, LineEnds, EndPhase,
      IsDialing, IsOngoing, Others, Return, Fault
  <2> QED BY <1>2, <2>1, <2>2, <2>3, <2>4, <2>5, <2>6, <2>7, <2>8
<1>3. CASE Wake \/ Snapshot \/ HandleKey \/ GsmEndCall \/ HandleRinging \/ HandleSpeaking \/
    HandleEnded \/ HandleOther \/ StopChoice \/ NotifyEnded
  <2>1. CASE Wake BY <2>1 DEF Wake, Dispatching, HandlesPhase, Dispatched, Remaining, Leave, Play,
      PlayerFree, CtrlFree, Driven, IsNew
  <2>2. CASE Snapshot BY <2>2 DEF Snapshot, Dispatching, HandlesPhase, Dispatched, Remaining, Leave,
      Play, PlayerFree, CtrlFree, Driven, IsNew
  <2>3. CASE HandleKey BY <2>3 DEF HandleKey, Dispatching, HandlesPhase, Dispatched, Remaining,
      Leave, Play, PlayerFree, CtrlFree, Driven, IsNew
  <2>4. CASE GsmEndCall BY <2>4 DEF GsmEndCall, Dispatching, HandlesPhase, Dispatched, Remaining,
      Leave, Play, PlayerFree, CtrlFree, Driven, IsNew
  <2>5. CASE HandleRinging BY <2>5 DEF HandleRinging, Dispatching, HandlesPhase, Dispatched,
      Remaining, Leave, Play, PlayerFree, CtrlFree, Driven, IsNew
  <2>6. CASE HandleSpeaking BY <2>6 DEF HandleSpeaking, Dispatching, HandlesPhase, Dispatched,
      Remaining, Leave, Play, PlayerFree, CtrlFree, Driven, IsNew
  <2>7. CASE HandleEnded BY <2>7 DEF HandleEnded, Dispatching, HandlesPhase, Dispatched, Remaining,
      Leave, Play, PlayerFree, CtrlFree, Driven, IsNew
  <2>8. CASE HandleOther BY <2>8 DEF HandleOther, Dispatching, HandlesPhase, Dispatched, Remaining,
      Leave, Play, PlayerFree, CtrlFree, Driven, IsNew
  <2>9. CASE StopChoice BY <2>9 DEF StopChoice, Dispatching, HandlesPhase, Dispatched, Remaining,
      Leave, Play, PlayerFree, CtrlFree, Driven, IsNew
  <2>10. CASE NotifyEnded BY <2>10 DEF NotifyEnded, Dispatching, HandlesPhase, Dispatched,
      Remaining, Leave, Play, PlayerFree, CtrlFree, Driven, IsNew
  <2> QED BY <1>3, <2>1, <2>2, <2>3, <2>4, <2>5, <2>6, <2>7, <2>8, <2>9, <2>10
<1>4. CASE StartAnswer \/ StartCall \/ Invoke \/ TakeResult \/ WaitCallEnd \/ Played \/
    ChoiceTimeoutElapsed
  <2>1. CASE StartAnswer BY <2>1 DEF StartAnswer, Called, PlayerFree, CtrlFree
  <2>2. CASE StartCall BY <2>2 DEF StartCall, Called, PlayerFree, CtrlFree
  <2>3. CASE Invoke BY <2>3 DEF Invoke, Called, PlayerFree, CtrlFree
  <2>4. CASE TakeResult BY <2>4 DEF TakeResult, Called, PlayerFree, CtrlFree
  <2>5. CASE WaitCallEnd BY <2>5 DEF WaitCallEnd, Called, PlayerFree, CtrlFree
  <2>6. CASE Played BY <2>6 DEF Played, Called, PlayerFree, CtrlFree
  <2>7. CASE ChoiceTimeoutElapsed BY <2>7 DEF ChoiceTimeoutElapsed, Called, PlayerFree, CtrlFree
  <2> QED BY <1>4, <2>1, <2>2, <2>3, <2>4, <2>5, <2>6, <2>7
<1>5. ASSUME NEW who \in Callers, IncomingCall(who) PROVE TypeSets'
  BY <1>5 DEF IncomingCall, ChangeCallPhase, UnchangedPhase, LineEnds, EndPhase, IsDialing,
      IsOngoing, Others
<1>6. ASSUME NEW t \in enders, EndCall(t) PROVE TypeSets'
  BY <1>6 DEF EndCall, Called, PlayerFree, CtrlFree
<1>7. CASE UNCHANGED vars BY <1>7 DEF vars
<1> QED BY <1>1, <1>2, <1>3, <1>4, <1>5, <1>6, <1>7 DEF Next, Module, Driver, Gsm, Service, EndCalls

\* Every step preserves DialingInv.
LEMMA DialingStep == IInv /\ [Next]_vars => DialingInv'
<1> SUFFICES ASSUME IInv, [Next]_vars PROVE DialingInv'
    OBVIOUS
<1> USE DEF IInv, TypeOK, DialingInv, TypeTasks, lineV, phaseV, commandV, faultV, gsmV, serviceV,
    menuV
<1>1. CASE Ring \/ RemoteEnd \/ KeyPressed \/ Malfunction
  <2>1. CASE Ring BY <2>1 DEF Ring, ChangeCallPhase, UnchangedPhase, LineEnds, EndPhase, IsDialing,
      IsOngoing, Others
  <2>2. CASE RemoteEnd BY <2>2 DEF RemoteEnd, ChangeCallPhase, UnchangedPhase, LineEnds, EndPhase,
      IsDialing, IsOngoing, Others
  <2>3. CASE KeyPressed BY <2>3 DEF KeyPressed, ChangeCallPhase, UnchangedPhase, LineEnds, EndPhase,
      IsDialing, IsOngoing, Others
  <2>4. CASE Malfunction BY <2>4 DEF Malfunction, ChangeCallPhase, UnchangedPhase, LineEnds,
      EndPhase, IsDialing, IsOngoing, Others, Fault
  <2> QED BY <1>1, <2>1, <2>2, <2>3, <2>4
<1>2. CASE IncomingSpeaking \/ CallStarted \/ DialingKnown \/ DialingFailed \/ AcceptDone \/
    RejectDone \/ EndDone \/ Reboot
  <2>1. CASE IncomingSpeaking BY <2>1 DEF IncomingSpeaking, ChangeCallPhase, UnchangedPhase,
      LineEnds, EndPhase, IsDialing, IsOngoing, Others, Return, Fault
  <2>2. CASE CallStarted BY <2>2 DEF CallStarted, ChangeCallPhase, UnchangedPhase, LineEnds,
      EndPhase, IsDialing, IsOngoing, Others, Return, Fault
  <2>3. CASE DialingKnown BY <2>3 DEF DialingKnown, ChangeCallPhase, UnchangedPhase, LineEnds,
      EndPhase, IsDialing, IsOngoing, Others, Return, Fault
  <2>4. CASE DialingFailed BY <2>4 DEF DialingFailed, ChangeCallPhase, UnchangedPhase, LineEnds,
      EndPhase, IsDialing, IsOngoing, Others, Return, Fault
  <2>5. CASE AcceptDone BY <2>5 DEF AcceptDone, ChangeCallPhase, UnchangedPhase, LineEnds, EndPhase,
      IsDialing, IsOngoing, Others, Return, Fault
  <2>6. CASE RejectDone BY <2>6 DEF RejectDone, ChangeCallPhase, UnchangedPhase, LineEnds, EndPhase,
      IsDialing, IsOngoing, Others, Return, Fault
  <2>7. CASE EndDone BY <2>7 DEF EndDone, ChangeCallPhase, UnchangedPhase, LineEnds, EndPhase,
      IsDialing, IsOngoing, Others, Return, Fault
  <2>8. CASE Reboot BY <2>8 DEF Reboot, ChangeCallPhase, UnchangedPhase, LineEnds, EndPhase,
      IsDialing, IsOngoing, Others, Return, Fault
  <2> QED BY <1>2, <2>1, <2>2, <2>3, <2>4, <2>5, <2>6, <2>7, <2>8
<1>3. CASE Wake \/ Snapshot \/ HandleKey \/ GsmEndCall \/ HandleRinging \/ HandleSpeaking \/
    HandleEnded \/ HandleOther \/ StopChoice \/ NotifyEnded
  <2>1. CASE Wake BY <2>1 DEF Wake, Dispatching, HandlesPhase, Dispatched, Remaining, Leave, Play,
      PlayerFree, CtrlFree, Driven, IsNew
  <2>2. CASE Snapshot BY <2>2 DEF Snapshot, Dispatching, HandlesPhase, Dispatched, Remaining, Leave,
      Play, PlayerFree, CtrlFree, Driven, IsNew
  <2>3. CASE HandleKey BY <2>3 DEF HandleKey, Dispatching, HandlesPhase, Dispatched, Remaining,
      Leave, Play, PlayerFree, CtrlFree, Driven, IsNew
  <2>4. CASE GsmEndCall BY <2>4 DEF GsmEndCall, Dispatching, HandlesPhase, Dispatched, Remaining,
      Leave, Play, PlayerFree, CtrlFree, Driven, IsNew
  <2>5. CASE HandleRinging BY <2>5 DEF HandleRinging, Dispatching, HandlesPhase, Dispatched,
      Remaining, Leave, Play, PlayerFree, CtrlFree, Driven, IsNew
  <2>6. CASE HandleSpeaking BY <2>6 DEF HandleSpeaking, Dispatching, HandlesPhase, Dispatched,
      Remaining, Leave, Play, PlayerFree, CtrlFree, Driven, IsNew
  <2>7. CASE HandleEnded BY <2>7 DEF HandleEnded, Dispatching, HandlesPhase, Dispatched, Remaining,
      Leave, Play, PlayerFree, CtrlFree, Driven, IsNew
  <2>8. CASE HandleOther BY <2>8 DEF HandleOther, Dispatching, HandlesPhase, Dispatched, Remaining,
      Leave, Play, PlayerFree, CtrlFree, Driven, IsNew
  <2>9. CASE StopChoice BY <2>9 DEF StopChoice, Dispatching, HandlesPhase, Dispatched, Remaining,
      Leave, Play, PlayerFree, CtrlFree, Driven, IsNew
  <2>10. CASE NotifyEnded BY <2>10 DEF NotifyEnded, Dispatching, HandlesPhase, Dispatched,
      Remaining, Leave, Play, PlayerFree, CtrlFree, Driven, IsNew
  <2> QED BY <1>3, <2>1, <2>2, <2>3, <2>4, <2>5, <2>6, <2>7, <2>8, <2>9, <2>10
<1>4. CASE StartAnswer \/ StartCall \/ Invoke \/ TakeResult \/ WaitCallEnd \/ Played \/
    ChoiceTimeoutElapsed
  <2>1. CASE StartAnswer BY <2>1 DEF StartAnswer, Called, PlayerFree, CtrlFree
  <2>2. CASE StartCall BY <2>2 DEF StartCall, Called, PlayerFree, CtrlFree
  <2>3. CASE Invoke BY <2>3 DEF Invoke, Called, PlayerFree, CtrlFree
  <2>4. CASE TakeResult BY <2>4 DEF TakeResult, Called, PlayerFree, CtrlFree
  <2>5. CASE WaitCallEnd BY <2>5 DEF WaitCallEnd, Called, PlayerFree, CtrlFree
  <2>6. CASE Played BY <2>6 DEF Played, Called, PlayerFree, CtrlFree
  <2>7. CASE ChoiceTimeoutElapsed BY <2>7 DEF ChoiceTimeoutElapsed, Called, PlayerFree, CtrlFree
  <2> QED BY <1>4, <2>1, <2>2, <2>3, <2>4, <2>5, <2>6, <2>7
<1>5. ASSUME NEW who \in Callers, IncomingCall(who) PROVE DialingInv'
  BY <1>5 DEF IncomingCall, ChangeCallPhase, UnchangedPhase, LineEnds, EndPhase, IsDialing,
      IsOngoing, Others
<1>6. ASSUME NEW t \in enders, EndCall(t) PROVE DialingInv'
  BY <1>6 DEF EndCall, Called, PlayerFree, CtrlFree
<1>7. CASE UNCHANGED vars BY <1>7 DEF vars
<1> QED BY <1>1, <1>2, <1>3, <1>4, <1>5, <1>6, <1>7 DEF Next, Module, Driver, Gsm, Service, EndCalls

\* Every step preserves KnownInv.
LEMMA KnownStep == IInv /\ [Next]_vars => KnownInv'
<1> SUFFICES ASSUME IInv, [Next]_vars PROVE KnownInv'
    OBVIOUS
<1> USE DEF IInv, TypeOK, KnownInv, TypeSets, Event, lineV, phaseV, commandV, faultV, gsmV,
    serviceV, menuV
<1>1. CASE Ring \/ RemoteEnd \/ KeyPressed \/ Malfunction
  <2>1. CASE Ring BY <2>1 DEF Ring, ChangeCallPhase, UnchangedPhase, LineEnds, EndPhase, IsDialing,
      IsOngoing, Others
  <2>2. CASE RemoteEnd BY <2>2 DEF RemoteEnd, ChangeCallPhase, UnchangedPhase, LineEnds, EndPhase,
      IsDialing, IsOngoing, Others
  <2>3. CASE KeyPressed BY <2>3 DEF KeyPressed, ChangeCallPhase, UnchangedPhase, LineEnds, EndPhase,
      IsDialing, IsOngoing, Others
  <2>4. CASE Malfunction BY <2>4 DEF Malfunction, ChangeCallPhase, UnchangedPhase, LineEnds,
      EndPhase, IsDialing, IsOngoing, Others, Fault
  <2> QED BY <1>1, <2>1, <2>2, <2>3, <2>4
<1>2. CASE IncomingSpeaking \/ CallStarted \/ DialingKnown \/ DialingFailed \/ AcceptDone \/
    RejectDone \/ EndDone \/ Reboot
  <2>1. CASE IncomingSpeaking BY <2>1 DEF IncomingSpeaking, ChangeCallPhase, UnchangedPhase,
      LineEnds, EndPhase, IsDialing, IsOngoing, Others, Return, Fault
  <2>2. CASE CallStarted BY <2>2 DEF CallStarted, ChangeCallPhase, UnchangedPhase, LineEnds,
      EndPhase, IsDialing, IsOngoing, Others, Return, Fault
  <2>3. CASE DialingKnown BY <2>3 DEF DialingKnown, ChangeCallPhase, UnchangedPhase, LineEnds,
      EndPhase, IsDialing, IsOngoing, Others, Return, Fault
  <2>4. CASE DialingFailed BY <2>4 DEF DialingFailed, ChangeCallPhase, UnchangedPhase, LineEnds,
      EndPhase, IsDialing, IsOngoing, Others, Return, Fault
  <2>5. CASE AcceptDone BY <2>5 DEF AcceptDone, ChangeCallPhase, UnchangedPhase, LineEnds, EndPhase,
      IsDialing, IsOngoing, Others, Return, Fault
  <2>6. CASE RejectDone BY <2>6 DEF RejectDone, ChangeCallPhase, UnchangedPhase, LineEnds, EndPhase,
      IsDialing, IsOngoing, Others, Return, Fault
  <2>7. CASE EndDone BY <2>7 DEF EndDone, ChangeCallPhase, UnchangedPhase, LineEnds, EndPhase,
      IsDialing, IsOngoing, Others, Return, Fault
  <2>8. CASE Reboot BY <2>8 DEF Reboot, ChangeCallPhase, UnchangedPhase, LineEnds, EndPhase,
      IsDialing, IsOngoing, Others, Return, Fault
  <2> QED BY <1>2, <2>1, <2>2, <2>3, <2>4, <2>5, <2>6, <2>7, <2>8
<1>3. CASE Wake \/ Snapshot \/ HandleKey \/ GsmEndCall \/ HandleRinging \/ HandleSpeaking \/
    HandleEnded \/ HandleOther \/ StopChoice \/ NotifyEnded
  <2>1. CASE Wake BY <2>1 DEF Wake, Dispatching, HandlesPhase, Dispatched, Remaining, Leave, Play,
      PlayerFree, CtrlFree, Driven, IsNew
  <2>2. CASE Snapshot BY <2>2 DEF Snapshot, Dispatching, HandlesPhase, Dispatched, Remaining, Leave,
      Play, PlayerFree, CtrlFree, Driven, IsNew
  <2>3. CASE HandleKey BY <2>3 DEF HandleKey, Dispatching, HandlesPhase, Dispatched, Remaining,
      Leave, Play, PlayerFree, CtrlFree, Driven, IsNew
  <2>4. CASE GsmEndCall BY <2>4 DEF GsmEndCall, Dispatching, HandlesPhase, Dispatched, Remaining,
      Leave, Play, PlayerFree, CtrlFree, Driven, IsNew
  <2>5. CASE HandleRinging BY <2>5 DEF HandleRinging, Dispatching, HandlesPhase, Dispatched,
      Remaining, Leave, Play, PlayerFree, CtrlFree, Driven, IsNew
  <2>6. CASE HandleSpeaking BY <2>6 DEF HandleSpeaking, Dispatching, HandlesPhase, Dispatched,
      Remaining, Leave, Play, PlayerFree, CtrlFree, Driven, IsNew
  <2>7. CASE HandleEnded BY <2>7 DEF HandleEnded, Dispatching, HandlesPhase, Dispatched, Remaining,
      Leave, Play, PlayerFree, CtrlFree, Driven, IsNew
  <2>8. CASE HandleOther BY <2>8 DEF HandleOther, Dispatching, HandlesPhase, Dispatched, Remaining,
      Leave, Play, PlayerFree, CtrlFree, Driven, IsNew
  <2>9. CASE StopChoice BY <2>9 DEF StopChoice, Dispatching, HandlesPhase, Dispatched, Remaining,
      Leave, Play, PlayerFree, CtrlFree, Driven, IsNew
  <2>10. CASE NotifyEnded BY <2>10 DEF NotifyEnded, Dispatching, HandlesPhase, Dispatched,
      Remaining, Leave, Play, PlayerFree, CtrlFree, Driven, IsNew
  <2> QED BY <1>3, <2>1, <2>2, <2>3, <2>4, <2>5, <2>6, <2>7, <2>8, <2>9, <2>10
<1>4. CASE StartAnswer \/ StartCall \/ Invoke \/ TakeResult \/ WaitCallEnd \/ Played \/
    ChoiceTimeoutElapsed
  <2>1. CASE StartAnswer BY <2>1 DEF StartAnswer, Called, PlayerFree, CtrlFree
  <2>2. CASE StartCall BY <2>2 DEF StartCall, Called, PlayerFree, CtrlFree
  <2>3. CASE Invoke BY <2>3 DEF Invoke, Called, PlayerFree, CtrlFree
  <2>4. CASE TakeResult BY <2>4 DEF TakeResult, Called, PlayerFree, CtrlFree
  <2>5. CASE WaitCallEnd BY <2>5 DEF WaitCallEnd, Called, PlayerFree, CtrlFree
  <2>6. CASE Played BY <2>6 DEF Played, Called, PlayerFree, CtrlFree
  <2>7. CASE ChoiceTimeoutElapsed BY <2>7 DEF ChoiceTimeoutElapsed, Called, PlayerFree, CtrlFree
  <2> QED BY <1>4, <2>1, <2>2, <2>3, <2>4, <2>5, <2>6, <2>7
<1>5. ASSUME NEW who \in Callers, IncomingCall(who) PROVE KnownInv'
  BY <1>5 DEF IncomingCall, ChangeCallPhase, UnchangedPhase, LineEnds, EndPhase, IsDialing,
      IsOngoing, Others
<1>6. ASSUME NEW t \in enders, EndCall(t) PROVE KnownInv'
  BY <1>6 DEF EndCall, Called, PlayerFree, CtrlFree
<1>7. CASE UNCHANGED vars BY <1>7 DEF vars
<1> QED BY <1>1, <1>2, <1>3, <1>4, <1>5, <1>6, <1>7 DEF Next, Module, Driver, Gsm, Service, EndCalls

\* Every step preserves SeenInv.
LEMMA SeenStep == IInv /\ [Next]_vars => SeenInv'
<1> SUFFICES ASSUME IInv, [Next]_vars PROVE SeenInv'
    OBVIOUS
<1> USE DEF IInv, TypeOK, SeenInv, KnownInv, DialingInv, TypeDriver, TypeTasks, TypeSets, Phase,
    Event, lineV, phaseV, commandV, faultV, gsmV, serviceV, menuV
<1>1. CASE Ring \/ RemoteEnd \/ KeyPressed \/ Malfunction
  <2>1. CASE Ring BY <2>1 DEF Ring, ChangeCallPhase, UnchangedPhase, LineEnds, EndPhase, IsDialing,
      IsOngoing, Others
  <2>2. CASE RemoteEnd BY <2>2 DEF RemoteEnd, ChangeCallPhase, UnchangedPhase, LineEnds, EndPhase,
      IsDialing, IsOngoing, Others
  <2>3. CASE KeyPressed BY <2>3 DEF KeyPressed, ChangeCallPhase, UnchangedPhase, LineEnds, EndPhase,
      IsDialing, IsOngoing, Others
  <2>4. CASE Malfunction BY <2>4 DEF Malfunction, ChangeCallPhase, UnchangedPhase, LineEnds,
      EndPhase, IsDialing, IsOngoing, Others, Fault
  <2> QED BY <1>1, <2>1, <2>2, <2>3, <2>4
<1>2. CASE IncomingSpeaking \/ CallStarted \/ DialingKnown \/ DialingFailed \/ AcceptDone \/
    RejectDone \/ EndDone \/ Reboot
  <2>1. CASE IncomingSpeaking BY <2>1 DEF IncomingSpeaking, ChangeCallPhase, UnchangedPhase,
      LineEnds, EndPhase, IsDialing, IsOngoing, Others, Return, Fault
  <2>2. CASE CallStarted BY <2>2 DEF CallStarted, ChangeCallPhase, UnchangedPhase, LineEnds,
      EndPhase, IsDialing, IsOngoing, Others, Return, Fault
  <2>3. CASE DialingKnown BY <2>3 DEF DialingKnown, ChangeCallPhase, UnchangedPhase, LineEnds,
      EndPhase, IsDialing, IsOngoing, Others, Return, Fault
  <2>4. CASE DialingFailed BY <2>4 DEF DialingFailed, ChangeCallPhase, UnchangedPhase, LineEnds,
      EndPhase, IsDialing, IsOngoing, Others, Return, Fault
  <2>5. CASE AcceptDone BY <2>5 DEF AcceptDone, ChangeCallPhase, UnchangedPhase, LineEnds, EndPhase,
      IsDialing, IsOngoing, Others, Return, Fault
  <2>6. CASE RejectDone BY <2>6 DEF RejectDone, ChangeCallPhase, UnchangedPhase, LineEnds, EndPhase,
      IsDialing, IsOngoing, Others, Return, Fault
  <2>7. CASE EndDone BY <2>7 DEF EndDone, ChangeCallPhase, UnchangedPhase, LineEnds, EndPhase,
      IsDialing, IsOngoing, Others, Return, Fault
  <2>8. CASE Reboot BY <2>8 DEF Reboot, ChangeCallPhase, UnchangedPhase, LineEnds, EndPhase,
      IsDialing, IsOngoing, Others, Return, Fault
  <2> QED BY <1>2, <2>1, <2>2, <2>3, <2>4, <2>5, <2>6, <2>7, <2>8
<1>3. CASE Wake \/ Snapshot \/ HandleKey \/ GsmEndCall \/ HandleRinging \/ HandleSpeaking \/
    HandleEnded \/ HandleOther \/ StopChoice \/ NotifyEnded
  <2>1. CASE Wake BY <2>1 DEF Wake, Dispatching, HandlesPhase, Dispatched, Remaining, Leave, Play,
      PlayerFree, CtrlFree, Driven, IsNew
  <2>2. CASE Snapshot BY <2>2 DEF Snapshot, Dispatching, HandlesPhase, Dispatched, Remaining, Leave,
      Play, PlayerFree, CtrlFree, Driven, IsNew
  <2>3. CASE HandleKey BY <2>3 DEF HandleKey, Dispatching, HandlesPhase, Dispatched, Remaining,
      Leave, Play, PlayerFree, CtrlFree, Driven, IsNew
  <2>4. CASE GsmEndCall BY <2>4 DEF GsmEndCall, Dispatching, HandlesPhase, Dispatched, Remaining,
      Leave, Play, PlayerFree, CtrlFree, Driven, IsNew
  <2>5. CASE HandleRinging BY <2>5 DEF HandleRinging, Dispatching, HandlesPhase, Dispatched,
      Remaining, Leave, Play, PlayerFree, CtrlFree, Driven, IsNew
  <2>6. CASE HandleSpeaking BY <2>6 DEF HandleSpeaking, Dispatching, HandlesPhase, Dispatched,
      Remaining, Leave, Play, PlayerFree, CtrlFree, Driven, IsNew
  <2>7. CASE HandleEnded BY <2>7 DEF HandleEnded, Dispatching, HandlesPhase, Dispatched, Remaining,
      Leave, Play, PlayerFree, CtrlFree, Driven, IsNew
  <2>8. CASE HandleOther BY <2>8 DEF HandleOther, Dispatching, HandlesPhase, Dispatched, Remaining,
      Leave, Play, PlayerFree, CtrlFree, Driven, IsNew
  <2>9. CASE StopChoice BY <2>9 DEF StopChoice, Dispatching, HandlesPhase, Dispatched, Remaining,
      Leave, Play, PlayerFree, CtrlFree, Driven, IsNew
  <2>10. CASE NotifyEnded BY <2>10 DEF NotifyEnded, Dispatching, HandlesPhase, Dispatched,
      Remaining, Leave, Play, PlayerFree, CtrlFree, Driven, IsNew
  <2> QED BY <1>3, <2>1, <2>2, <2>3, <2>4, <2>5, <2>6, <2>7, <2>8, <2>9, <2>10
<1>4. CASE StartAnswer \/ StartCall \/ Invoke \/ TakeResult \/ WaitCallEnd \/ Played \/
    ChoiceTimeoutElapsed
  <2>1. CASE StartAnswer BY <2>1 DEF StartAnswer, Called, PlayerFree, CtrlFree
  <2>2. CASE StartCall BY <2>2 DEF StartCall, Called, PlayerFree, CtrlFree
  <2>3. CASE Invoke BY <2>3 DEF Invoke, Called, PlayerFree, CtrlFree
  <2>4. CASE TakeResult BY <2>4 DEF TakeResult, Called, PlayerFree, CtrlFree
  <2>5. CASE WaitCallEnd BY <2>5 DEF WaitCallEnd, Called, PlayerFree, CtrlFree
  <2>6. CASE Played BY <2>6 DEF Played, Called, PlayerFree, CtrlFree
  <2>7. CASE ChoiceTimeoutElapsed BY <2>7 DEF ChoiceTimeoutElapsed, Called, PlayerFree, CtrlFree
  <2> QED BY <1>4, <2>1, <2>2, <2>3, <2>4, <2>5, <2>6, <2>7
<1>5. ASSUME NEW who \in Callers, IncomingCall(who) PROVE SeenInv'
  BY <1>5 DEF IncomingCall, ChangeCallPhase, UnchangedPhase, LineEnds, EndPhase, IsDialing,
      IsOngoing, Others
<1>6. ASSUME NEW t \in enders, EndCall(t) PROVE SeenInv'
  BY <1>6 DEF EndCall, Called, PlayerFree, CtrlFree
<1>7. CASE UNCHANGED vars BY <1>7 DEF vars
<1> QED BY <1>1, <1>2, <1>3, <1>4, <1>5, <1>6, <1>7 DEF Next, Module, Driver, Gsm, Service, EndCalls

\* As long as the module answers, every step leaves at most one end to be given.
LEMMA EndStep == IInv /\ [Next]_vars => EndInv'
<1> SUFFICES ASSUME IInv, [Next]_vars, faults' = 0 PROVE OneEnd'
    BY DEF EndInv
<1>8. TypeFaults BY DEF IInv, TypeOK
<1>9. faults' = faults \/ faults' = faults + 1 BY FaultsChange DEF Fault
<1>10. faults = 0 /\ ~Fault BY <1>8, <1>9, MaxFaultsAssumption DEF TypeFaults, Fault
<1>11. OneEnd BY <1>10 DEF IInv, EndInv
<1>12. SeenInv /\ TypeDriver /\ TypeTasks /\ TypeSets /\ DialingInv BY DEF IInv, TypeOK
<1> HIDE DEF Fault
<1> USE <1>10, <1>11, <1>12 DEF OneEnd, Speaking, Accepted, EndComes, SeenInv, DialingInv, TypeDriver, TypeTasks,
    TypeSets, Phase, Event, lineV, phaseV, commandV, faultV, gsmV, serviceV, menuV, IsDialing
<1>1. CASE Ring \/ RemoteEnd \/ KeyPressed \/ Malfunction
  <2>1. CASE Ring BY <2>1 DEF Ring, ChangeCallPhase, UnchangedPhase, LineEnds, EndPhase, IsDialing,
      IsOngoing, Others
  <2>2. CASE RemoteEnd BY <2>2 DEF RemoteEnd, ChangeCallPhase, UnchangedPhase, LineEnds, EndPhase,
      IsDialing, IsOngoing, Others
  <2>3. CASE KeyPressed BY <2>3 DEF KeyPressed, ChangeCallPhase, UnchangedPhase, LineEnds, EndPhase,
      IsDialing, IsOngoing, Others
  <2>4. CASE Malfunction BY <2>4 DEF Malfunction, ChangeCallPhase, UnchangedPhase, LineEnds,
      EndPhase, IsDialing, IsOngoing, Others
  <2> QED BY <1>1, <2>1, <2>2, <2>3, <2>4
<1>2. CASE IncomingSpeaking \/ CallStarted \/ DialingKnown \/ DialingFailed \/ AcceptDone \/
    RejectDone \/ EndDone \/ Reboot
  <2>1. CASE IncomingSpeaking BY <2>1 DEF IncomingSpeaking, ChangeCallPhase, UnchangedPhase,
      LineEnds, EndPhase, IsDialing, IsOngoing, Others, Return
  <2>2. CASE CallStarted BY <2>2 DEF CallStarted, ChangeCallPhase, UnchangedPhase, LineEnds,
      EndPhase, IsDialing, IsOngoing, Others, Return
  <2>3. CASE DialingKnown BY <2>3 DEF DialingKnown, ChangeCallPhase, UnchangedPhase, LineEnds,
      EndPhase, IsDialing, IsOngoing, Others, Return
  <2>4. CASE DialingFailed BY <2>4 DEF DialingFailed, ChangeCallPhase, UnchangedPhase, LineEnds,
      EndPhase, IsDialing, IsOngoing, Others, Return
  <2>5. CASE AcceptDone BY <2>5 DEF AcceptDone, ChangeCallPhase, UnchangedPhase, LineEnds, EndPhase,
      IsDialing, IsOngoing, Others, Return
  <2>6. CASE RejectDone BY <2>6 DEF RejectDone, ChangeCallPhase, UnchangedPhase, LineEnds, EndPhase,
      IsDialing, IsOngoing, Others, Return
  <2>7. CASE EndDone BY <2>7 DEF EndDone, ChangeCallPhase, UnchangedPhase, LineEnds, EndPhase,
      IsDialing, IsOngoing, Others, Return
  <2>8. CASE Reboot BY <2>8 DEF Reboot, ChangeCallPhase, UnchangedPhase, LineEnds, EndPhase,
      IsDialing, IsOngoing, Others, Return
  <2> QED BY <1>2, <2>1, <2>2, <2>3, <2>4, <2>5, <2>6, <2>7, <2>8
<1>3. CASE Wake \/ Snapshot \/ HandleKey \/ GsmEndCall \/ HandleRinging \/ HandleSpeaking \/
    HandleEnded \/ HandleOther \/ StopChoice \/ NotifyEnded
  <2>1. CASE Wake BY <2>1 DEF Wake, Dispatching, HandlesPhase, Dispatched, Remaining, Leave, Play,
      PlayerFree, CtrlFree, Driven, IsNew
  <2>2. CASE Snapshot BY <2>2 DEF Snapshot, Dispatching, HandlesPhase, Dispatched, Remaining, Leave,
      Play, PlayerFree, CtrlFree, Driven, IsNew
  <2>3. CASE HandleKey BY <2>3 DEF HandleKey, Dispatching, HandlesPhase, Dispatched, Remaining,
      Leave, Play, PlayerFree, CtrlFree, Driven, IsNew
  <2>4. CASE GsmEndCall BY <2>4 DEF GsmEndCall, Dispatching, HandlesPhase, Dispatched, Remaining,
      Leave, Play, PlayerFree, CtrlFree, Driven, IsNew
  <2>5. CASE HandleRinging BY <2>5 DEF HandleRinging, Dispatching, HandlesPhase, Dispatched,
      Remaining, Leave, Play, PlayerFree, CtrlFree, Driven, IsNew
  <2>6. CASE HandleSpeaking BY <2>6 DEF HandleSpeaking, Dispatching, HandlesPhase, Dispatched,
      Remaining, Leave, Play, PlayerFree, CtrlFree, Driven, IsNew
  <2>7. CASE HandleEnded BY <2>7 DEF HandleEnded, Dispatching, HandlesPhase, Dispatched, Remaining,
      Leave, Play, PlayerFree, CtrlFree, Driven, IsNew
  <2>8. CASE HandleOther BY <2>8 DEF HandleOther, Dispatching, HandlesPhase, Dispatched, Remaining,
      Leave, Play, PlayerFree, CtrlFree, Driven, IsNew
  <2>9. CASE StopChoice BY <2>9 DEF StopChoice, Dispatching, HandlesPhase, Dispatched, Remaining,
      Leave, Play, PlayerFree, CtrlFree, Driven, IsNew
  <2>10. CASE NotifyEnded BY <2>10 DEF NotifyEnded, Dispatching, HandlesPhase, Dispatched,
      Remaining, Leave, Play, PlayerFree, CtrlFree, Driven, IsNew
  <2> QED BY <1>3, <2>1, <2>2, <2>3, <2>4, <2>5, <2>6, <2>7, <2>8, <2>9, <2>10
<1>4. CASE StartAnswer \/ StartCall \/ Invoke \/ TakeResult \/ WaitCallEnd \/ Played \/
    ChoiceTimeoutElapsed
  <2>1. CASE StartAnswer BY <2>1 DEF StartAnswer, Called, PlayerFree, CtrlFree
  <2>2. CASE StartCall BY <2>2 DEF StartCall, Called, PlayerFree, CtrlFree
  <2>3. CASE Invoke BY <2>3 DEF Invoke, Called, PlayerFree, CtrlFree
  <2>4. CASE TakeResult BY <2>4 DEF TakeResult, Called, PlayerFree, CtrlFree
  <2>5. CASE WaitCallEnd BY <2>5 DEF WaitCallEnd, Called, PlayerFree, CtrlFree
  <2>6. CASE Played BY <2>6 DEF Played, Called, PlayerFree, CtrlFree
  <2>7. CASE ChoiceTimeoutElapsed BY <2>7 DEF ChoiceTimeoutElapsed, Called, PlayerFree, CtrlFree
  <2> QED BY <1>4, <2>1, <2>2, <2>3, <2>4, <2>5, <2>6, <2>7
<1>5. ASSUME NEW who \in Callers, IncomingCall(who) PROVE OneEnd'
  BY <1>5 DEF IncomingCall, ChangeCallPhase, UnchangedPhase, LineEnds, EndPhase, IsDialing,
      IsOngoing, Others
<1>6. ASSUME NEW t \in enders, EndCall(t) PROVE OneEnd'
  BY <1>6 DEF EndCall, Called, PlayerFree, CtrlFree
<1>7. CASE UNCHANGED vars BY <1>7 DEF vars
<1> QED BY <1>1, <1>2, <1>3, <1>4, <1>5, <1>6, <1>7 DEF Next, Module, Driver, Gsm, Service, EndCalls

\* wait_call_end() returns by a notification only.
LEMMA WaitStep == [Next]_vars /\ service = "wait_end" /\ service' = "idle" => ended
<1> SUFFICES ASSUME [Next]_vars, service = "wait_end", service' = "idle" PROVE ended
    OBVIOUS
<1> USE DEF serviceV, Others, Called, Driven
<1>1. CASE Ring \/ RemoteEnd \/ KeyPressed \/ Malfunction
  <2>1. CASE Ring BY <2>1 DEF Ring
  <2>2. CASE RemoteEnd BY <2>2 DEF RemoteEnd
  <2>3. CASE KeyPressed BY <2>3 DEF KeyPressed
  <2>4. CASE Malfunction BY <2>4 DEF Malfunction
  <2> QED BY <1>1, <2>1, <2>2, <2>3, <2>4
<1>2. CASE IncomingSpeaking \/ CallStarted \/ DialingKnown \/ DialingFailed \/ AcceptDone \/
    RejectDone \/ EndDone \/ Reboot
  <2>1. CASE IncomingSpeaking BY <2>1 DEF IncomingSpeaking
  <2>2. CASE CallStarted BY <2>2 DEF CallStarted
  <2>3. CASE DialingKnown BY <2>3 DEF DialingKnown
  <2>4. CASE DialingFailed BY <2>4 DEF DialingFailed
  <2>5. CASE AcceptDone BY <2>5 DEF AcceptDone
  <2>6. CASE RejectDone BY <2>6 DEF RejectDone
  <2>7. CASE EndDone BY <2>7 DEF EndDone
  <2>8. CASE Reboot BY <2>8 DEF Reboot
  <2> QED BY <1>2, <2>1, <2>2, <2>3, <2>4, <2>5, <2>6, <2>7, <2>8
<1>3. CASE Wake \/ Snapshot \/ HandleKey \/ GsmEndCall \/ HandleRinging \/ HandleSpeaking \/
    HandleEnded \/ HandleOther \/ StopChoice \/ NotifyEnded
  <2>1. CASE Wake BY <2>1 DEF Wake
  <2>2. CASE Snapshot BY <2>2 DEF Snapshot
  <2>3. CASE HandleKey BY <2>3 DEF HandleKey
  <2>4. CASE GsmEndCall BY <2>4 DEF GsmEndCall
  <2>5. CASE HandleRinging BY <2>5 DEF HandleRinging
  <2>6. CASE HandleSpeaking BY <2>6 DEF HandleSpeaking
  <2>7. CASE HandleEnded BY <2>7 DEF HandleEnded
  <2>8. CASE HandleOther BY <2>8 DEF HandleOther
  <2>9. CASE StopChoice BY <2>9 DEF StopChoice
  <2>10. CASE NotifyEnded BY <2>10 DEF NotifyEnded
  <2> QED BY <1>3, <2>1, <2>2, <2>3, <2>4, <2>5, <2>6, <2>7, <2>8, <2>9, <2>10
<1>4. CASE StartAnswer \/ StartCall \/ Invoke \/ TakeResult \/ WaitCallEnd \/ Played \/
    ChoiceTimeoutElapsed
  <2>1. CASE StartAnswer BY <2>1 DEF StartAnswer
  <2>2. CASE StartCall BY <2>2 DEF StartCall
  <2>3. CASE Invoke BY <2>3 DEF Invoke
  <2>4. CASE TakeResult BY <2>4 DEF TakeResult
  <2>5. CASE WaitCallEnd BY <2>5 DEF WaitCallEnd
  <2>6. CASE Played BY <2>6 DEF Played
  <2>7. CASE ChoiceTimeoutElapsed BY <2>7 DEF ChoiceTimeoutElapsed
  <2> QED BY <1>4, <2>1, <2>2, <2>3, <2>4, <2>5, <2>6, <2>7
<1>5. ASSUME NEW who \in Callers, IncomingCall(who) PROVE ended
  BY <1>5 DEF IncomingCall
<1>6. ASSUME NEW t \in enders, EndCall(t) PROVE ended
  BY <1>6 DEF EndCall
<1>7. CASE UNCHANGED vars BY <1>7 DEF vars
<1> QED BY <1>1, <1>2, <1>3, <1>4, <1>5, <1>6, <1>7 DEF Next, Module, Driver, Gsm, Service, EndCalls

\* Every step preserves DialedThenEnded.
LEMMA DialedStep == IInv /\ [Next]_vars => DialedThenEnded'
<1> SUFFICES ASSUME IInv, [Next]_vars PROVE DialedThenEnded'
    OBVIOUS
<1> USE DEF IInv, TypeOK, DialedThenEnded, SeenInv, KnownInv, TypeDriver, TypeTasks, TypeSets,
    Phase, Event, lineV, phaseV, commandV, faultV, gsmV, serviceV, menuV
<1>1. CASE Ring \/ RemoteEnd \/ KeyPressed \/ Malfunction
  <2>1. CASE Ring BY <2>1 DEF Ring, ChangeCallPhase, UnchangedPhase, LineEnds, EndPhase, IsDialing,
      IsOngoing, Others
  <2>2. CASE RemoteEnd BY <2>2 DEF RemoteEnd, ChangeCallPhase, UnchangedPhase, LineEnds, EndPhase,
      IsDialing, IsOngoing, Others
  <2>3. CASE KeyPressed BY <2>3 DEF KeyPressed, ChangeCallPhase, UnchangedPhase, LineEnds, EndPhase,
      IsDialing, IsOngoing, Others
  <2>4. CASE Malfunction BY <2>4 DEF Malfunction, ChangeCallPhase, UnchangedPhase, LineEnds,
      EndPhase, IsDialing, IsOngoing, Others, Fault
  <2> QED BY <1>1, <2>1, <2>2, <2>3, <2>4
<1>2. CASE IncomingSpeaking \/ CallStarted \/ DialingKnown \/ DialingFailed \/ AcceptDone \/
    RejectDone \/ EndDone \/ Reboot
  <2>1. CASE IncomingSpeaking BY <2>1 DEF IncomingSpeaking, ChangeCallPhase, UnchangedPhase,
      LineEnds, EndPhase, IsDialing, IsOngoing, Others, Return, Fault
  <2>2. CASE CallStarted BY <2>2 DEF CallStarted, ChangeCallPhase, UnchangedPhase, LineEnds,
      EndPhase, IsDialing, IsOngoing, Others, Return, Fault
  <2>3. CASE DialingKnown BY <2>3 DEF DialingKnown, ChangeCallPhase, UnchangedPhase, LineEnds,
      EndPhase, IsDialing, IsOngoing, Others, Return, Fault
  <2>4. CASE DialingFailed BY <2>4 DEF DialingFailed, ChangeCallPhase, UnchangedPhase, LineEnds,
      EndPhase, IsDialing, IsOngoing, Others, Return, Fault
  <2>5. CASE AcceptDone BY <2>5 DEF AcceptDone, ChangeCallPhase, UnchangedPhase, LineEnds, EndPhase,
      IsDialing, IsOngoing, Others, Return, Fault
  <2>6. CASE RejectDone BY <2>6 DEF RejectDone, ChangeCallPhase, UnchangedPhase, LineEnds, EndPhase,
      IsDialing, IsOngoing, Others, Return, Fault
  <2>7. CASE EndDone BY <2>7 DEF EndDone, ChangeCallPhase, UnchangedPhase, LineEnds, EndPhase,
      IsDialing, IsOngoing, Others, Return, Fault
  <2>8. CASE Reboot BY <2>8 DEF Reboot, ChangeCallPhase, UnchangedPhase, LineEnds, EndPhase,
      IsDialing, IsOngoing, Others, Return, Fault
  <2> QED BY <1>2, <2>1, <2>2, <2>3, <2>4, <2>5, <2>6, <2>7, <2>8
<1>3. CASE Wake \/ Snapshot \/ HandleKey \/ GsmEndCall \/ HandleRinging \/ HandleSpeaking \/
    HandleEnded \/ HandleOther \/ StopChoice \/ NotifyEnded
  <2>1. CASE Wake BY <2>1 DEF Wake, Dispatching, HandlesPhase, Dispatched, Remaining, Leave, Play,
      PlayerFree, CtrlFree, Driven, IsNew
  <2>2. CASE Snapshot BY <2>2 DEF Snapshot, Dispatching, HandlesPhase, Dispatched, Remaining, Leave,
      Play, PlayerFree, CtrlFree, Driven, IsNew
  <2>3. CASE HandleKey BY <2>3 DEF HandleKey, Dispatching, HandlesPhase, Dispatched, Remaining,
      Leave, Play, PlayerFree, CtrlFree, Driven, IsNew
  <2>4. CASE GsmEndCall BY <2>4 DEF GsmEndCall, Dispatching, HandlesPhase, Dispatched, Remaining,
      Leave, Play, PlayerFree, CtrlFree, Driven, IsNew
  <2>5. CASE HandleRinging BY <2>5 DEF HandleRinging, Dispatching, HandlesPhase, Dispatched,
      Remaining, Leave, Play, PlayerFree, CtrlFree, Driven, IsNew
  <2>6. CASE HandleSpeaking BY <2>6 DEF HandleSpeaking, Dispatching, HandlesPhase, Dispatched,
      Remaining, Leave, Play, PlayerFree, CtrlFree, Driven, IsNew
  <2>7. CASE HandleEnded BY <2>7 DEF HandleEnded, Dispatching, HandlesPhase, Dispatched, Remaining,
      Leave, Play, PlayerFree, CtrlFree, Driven, IsNew
  <2>8. CASE HandleOther BY <2>8 DEF HandleOther, Dispatching, HandlesPhase, Dispatched, Remaining,
      Leave, Play, PlayerFree, CtrlFree, Driven, IsNew
  <2>9. CASE StopChoice BY <2>9 DEF StopChoice, Dispatching, HandlesPhase, Dispatched, Remaining,
      Leave, Play, PlayerFree, CtrlFree, Driven, IsNew
  <2>10. CASE NotifyEnded BY <2>10 DEF NotifyEnded, Dispatching, HandlesPhase, Dispatched,
      Remaining, Leave, Play, PlayerFree, CtrlFree, Driven, IsNew
  <2> QED BY <1>3, <2>1, <2>2, <2>3, <2>4, <2>5, <2>6, <2>7, <2>8, <2>9, <2>10
<1>4. CASE StartAnswer \/ StartCall \/ Invoke \/ TakeResult \/ WaitCallEnd \/ Played \/
    ChoiceTimeoutElapsed
  <2>1. CASE StartAnswer BY <2>1 DEF StartAnswer, Called, PlayerFree, CtrlFree
  <2>2. CASE StartCall BY <2>2 DEF StartCall, Called, PlayerFree, CtrlFree
  <2>3. CASE Invoke BY <2>3 DEF Invoke, Called, PlayerFree, CtrlFree
  <2>4. CASE TakeResult BY <2>4 DEF TakeResult, Called, PlayerFree, CtrlFree
  <2>5. CASE WaitCallEnd BY <2>5 DEF WaitCallEnd, Called, PlayerFree, CtrlFree
  <2>6. CASE Played BY <2>6 DEF Played, Called, PlayerFree, CtrlFree
  <2>7. CASE ChoiceTimeoutElapsed BY <2>7 DEF ChoiceTimeoutElapsed, Called, PlayerFree, CtrlFree
  <2> QED BY <1>4, <2>1, <2>2, <2>3, <2>4, <2>5, <2>6, <2>7
<1>5. ASSUME NEW who \in Callers, IncomingCall(who) PROVE DialedThenEnded'
  BY <1>5 DEF IncomingCall, ChangeCallPhase, UnchangedPhase, LineEnds, EndPhase, IsDialing,
      IsOngoing, Others
<1>6. ASSUME NEW t \in enders, EndCall(t) PROVE DialedThenEnded'
  BY <1>6 DEF EndCall, Called, PlayerFree, CtrlFree
<1>7. CASE UNCHANGED vars BY <1>7 DEF vars
<1> QED BY <1>1, <1>2, <1>3, <1>4, <1>5, <1>6, <1>7 DEF Next, Module, Driver, Gsm, Service, EndCalls

\* No step writes after an end that is not handled.
LEMMA WritesStep == IInv /\ [Next]_vars => (actual = "ENDED" => actual' \in {"ENDED", "NONE"} /\ number' = number)
<1> SUFFICES ASSUME IInv, [Next]_vars PROVE actual = "ENDED" => actual' \in {"ENDED", "NONE"} /\ number' = number
    OBVIOUS
<1> USE DEF IInv, TypeOK, DialingInv, lineV, phaseV, commandV, faultV, gsmV, serviceV, menuV
<1>1. CASE Ring \/ RemoteEnd \/ KeyPressed \/ Malfunction
  <2>1. CASE Ring BY <2>1 DEF Ring, ChangeCallPhase, UnchangedPhase, LineEnds, EndPhase, IsDialing,
      IsOngoing, Others
  <2>2. CASE RemoteEnd BY <2>2 DEF RemoteEnd, ChangeCallPhase, UnchangedPhase, LineEnds, EndPhase,
      IsDialing, IsOngoing, Others
  <2>3. CASE KeyPressed BY <2>3 DEF KeyPressed, ChangeCallPhase, UnchangedPhase, LineEnds, EndPhase,
      IsDialing, IsOngoing, Others
  <2>4. CASE Malfunction BY <2>4 DEF Malfunction, ChangeCallPhase, UnchangedPhase, LineEnds,
      EndPhase, IsDialing, IsOngoing, Others, Fault
  <2> QED BY <1>1, <2>1, <2>2, <2>3, <2>4
<1>2. CASE IncomingSpeaking \/ CallStarted \/ DialingKnown \/ DialingFailed \/ AcceptDone \/
    RejectDone \/ EndDone \/ Reboot
  <2>1. CASE IncomingSpeaking BY <2>1 DEF IncomingSpeaking, ChangeCallPhase, UnchangedPhase,
      LineEnds, EndPhase, IsDialing, IsOngoing, Others, Return, Fault
  <2>2. CASE CallStarted BY <2>2 DEF CallStarted, ChangeCallPhase, UnchangedPhase, LineEnds,
      EndPhase, IsDialing, IsOngoing, Others, Return, Fault
  <2>3. CASE DialingKnown BY <2>3 DEF DialingKnown, ChangeCallPhase, UnchangedPhase, LineEnds,
      EndPhase, IsDialing, IsOngoing, Others, Return, Fault
  <2>4. CASE DialingFailed BY <2>4 DEF DialingFailed, ChangeCallPhase, UnchangedPhase, LineEnds,
      EndPhase, IsDialing, IsOngoing, Others, Return, Fault
  <2>5. CASE AcceptDone BY <2>5 DEF AcceptDone, ChangeCallPhase, UnchangedPhase, LineEnds, EndPhase,
      IsDialing, IsOngoing, Others, Return, Fault
  <2>6. CASE RejectDone BY <2>6 DEF RejectDone, ChangeCallPhase, UnchangedPhase, LineEnds, EndPhase,
      IsDialing, IsOngoing, Others, Return, Fault
  <2>7. CASE EndDone BY <2>7 DEF EndDone, ChangeCallPhase, UnchangedPhase, LineEnds, EndPhase,
      IsDialing, IsOngoing, Others, Return, Fault
  <2>8. CASE Reboot BY <2>8 DEF Reboot, ChangeCallPhase, UnchangedPhase, LineEnds, EndPhase,
      IsDialing, IsOngoing, Others, Return, Fault
  <2> QED BY <1>2, <2>1, <2>2, <2>3, <2>4, <2>5, <2>6, <2>7, <2>8
<1>3. CASE Wake \/ Snapshot \/ HandleKey \/ GsmEndCall \/ HandleRinging \/ HandleSpeaking \/
    HandleEnded \/ HandleOther \/ StopChoice \/ NotifyEnded
  <2>1. CASE Wake BY <2>1 DEF Wake, Dispatching, HandlesPhase, Dispatched, Remaining, Leave, Play,
      PlayerFree, CtrlFree, Driven, IsNew
  <2>2. CASE Snapshot BY <2>2 DEF Snapshot, Dispatching, HandlesPhase, Dispatched, Remaining, Leave,
      Play, PlayerFree, CtrlFree, Driven, IsNew
  <2>3. CASE HandleKey BY <2>3 DEF HandleKey, Dispatching, HandlesPhase, Dispatched, Remaining,
      Leave, Play, PlayerFree, CtrlFree, Driven, IsNew
  <2>4. CASE GsmEndCall BY <2>4 DEF GsmEndCall, Dispatching, HandlesPhase, Dispatched, Remaining,
      Leave, Play, PlayerFree, CtrlFree, Driven, IsNew
  <2>5. CASE HandleRinging BY <2>5 DEF HandleRinging, Dispatching, HandlesPhase, Dispatched,
      Remaining, Leave, Play, PlayerFree, CtrlFree, Driven, IsNew
  <2>6. CASE HandleSpeaking BY <2>6 DEF HandleSpeaking, Dispatching, HandlesPhase, Dispatched,
      Remaining, Leave, Play, PlayerFree, CtrlFree, Driven, IsNew
  <2>7. CASE HandleEnded BY <2>7 DEF HandleEnded, Dispatching, HandlesPhase, Dispatched, Remaining,
      Leave, Play, PlayerFree, CtrlFree, Driven, IsNew
  <2>8. CASE HandleOther BY <2>8 DEF HandleOther, Dispatching, HandlesPhase, Dispatched, Remaining,
      Leave, Play, PlayerFree, CtrlFree, Driven, IsNew
  <2>9. CASE StopChoice BY <2>9 DEF StopChoice, Dispatching, HandlesPhase, Dispatched, Remaining,
      Leave, Play, PlayerFree, CtrlFree, Driven, IsNew
  <2>10. CASE NotifyEnded BY <2>10 DEF NotifyEnded, Dispatching, HandlesPhase, Dispatched,
      Remaining, Leave, Play, PlayerFree, CtrlFree, Driven, IsNew
  <2> QED BY <1>3, <2>1, <2>2, <2>3, <2>4, <2>5, <2>6, <2>7, <2>8, <2>9, <2>10
<1>4. CASE StartAnswer \/ StartCall \/ Invoke \/ TakeResult \/ WaitCallEnd \/ Played \/
    ChoiceTimeoutElapsed
  <2>1. CASE StartAnswer BY <2>1 DEF StartAnswer, Called, PlayerFree, CtrlFree
  <2>2. CASE StartCall BY <2>2 DEF StartCall, Called, PlayerFree, CtrlFree
  <2>3. CASE Invoke BY <2>3 DEF Invoke, Called, PlayerFree, CtrlFree
  <2>4. CASE TakeResult BY <2>4 DEF TakeResult, Called, PlayerFree, CtrlFree
  <2>5. CASE WaitCallEnd BY <2>5 DEF WaitCallEnd, Called, PlayerFree, CtrlFree
  <2>6. CASE Played BY <2>6 DEF Played, Called, PlayerFree, CtrlFree
  <2>7. CASE ChoiceTimeoutElapsed BY <2>7 DEF ChoiceTimeoutElapsed, Called, PlayerFree, CtrlFree
  <2> QED BY <1>4, <2>1, <2>2, <2>3, <2>4, <2>5, <2>6, <2>7
<1>5. ASSUME NEW who \in Callers, IncomingCall(who) PROVE actual = "ENDED" => actual' \in {"ENDED", "NONE"} /\ number' = number
  BY <1>5 DEF IncomingCall, ChangeCallPhase, UnchangedPhase, LineEnds, EndPhase, IsDialing,
      IsOngoing, Others
<1>6. ASSUME NEW t \in enders, EndCall(t) PROVE actual = "ENDED" => actual' \in {"ENDED", "NONE"} /\ number' = number
  BY <1>6 DEF EndCall, Called, PlayerFree, CtrlFree
<1>7. CASE UNCHANGED vars BY <1>7 DEF vars
<1> QED BY <1>1, <1>2, <1>3, <1>4, <1>5, <1>6, <1>7 DEF Next, Module, Driver, Gsm, Service, EndCalls

\* IInv holds initially.
LEMMA InitIInv == Init => IInv
<1> SUFFICES ASSUME Init PROVE IInv
    OBVIOUS
<1>1. TypeDriver /\ TypeTasks /\ TypeFlags /\ TypeSets
  BY DEF Init, TypeDriver, TypeTasks, TypeFlags, TypeSets, Phase, Caller, Event, Line, Command, Wav
<1>2. DialingInv /\ KnownInv /\ SeenInv /\ DialedThenEnded
  BY DEF Init, DialingInv, KnownInv, SeenInv, DialedThenEnded
<1>4. EndInv
  BY DEF Init, EndInv, OneEnd, Speaking, Accepted, EndComes, IsDialing
<1>3. TypeFaults
  BY MaxFaultsAssumption DEF Init, TypeFaults
<1> QED BY <1>1, <1>2, <1>3, <1>4 DEF IInv, TypeOK

\* IInv is an invariant of phone calls.
THEOREM Inductive == Spec => []IInv
<1>1. IInv /\ [Next]_vars => IInv'
  BY TypeDriverStep, TypeFaultsStep, TypeTasksStep, TypeFlagsStep, TypeSetsStep, DialingStep, KnownStep, SeenStep, DialedStep,
      EndStep DEF IInv, TypeOK
<1> QED BY InitIInv, <1>1, PTL DEF Spec

\* Type correctness.
THEOREM TypeCorrect == Spec => []TypeOK
<1>1. IInv => TypeOK BY DEF IInv
<1> QED BY Inductive, <1>1, PTL

\* No change of the phase is lost: when the "gsm" task has nothing to do, it has
\* handled the actual phase.
THEOREM NothingLost == Spec => []HandledFollowsActual
<1>1. IInv => HandledFollowsActual
  BY DEF IInv, TypeOK, KnownInv, HandledFollowsActual
<1> QED BY Inductive, <1>1, PTL

\* "On call dialed" and "on call ended" alternate.
THEOREM Alternate == Spec => []DialedThenEnded
<1>1. IInv => DialedThenEnded BY DEF IInv
<1> QED BY Inductive, <1>1, PTL

\* Nobody writes the phase or the number after an end, until it is handled.
THEOREM NobodyWrites == Spec => NobodyWritesAfterEnded
<1>1. IInv /\ [Next]_vars => [actual = "ENDED" => actual' \in {"ENDED", "NONE"} /\ number' = number]_vars
  BY WritesStep
<1>2. Spec => [][actual = "ENDED" => actual' \in {"ENDED", "NONE"} /\ number' = number]_vars
  BY Inductive, <1>1, PTL DEF Spec
<1> QED BY <1>2 DEF NobodyWritesAfterEnded

\* wait_call_end() does not return before the call has ended, as long as the module answers.
THEOREM WaitsForTheEnd == Spec => WaitEndsWithTheCall
<1>1. IInv /\ [Next]_vars =>
        [faults = 0 /\ service = "wait_end" /\ service' = "idle" =>
            line \notin {"incoming", "outgoing"} \/ ~IsOngoing(actual)]_vars
  <2> SUFFICES ASSUME IInv, [Next]_vars, faults = 0, service = "wait_end", service' = "idle"
               PROVE  line \notin {"incoming", "outgoing"} \/ ~IsOngoing(actual)
    OBVIOUS
  <2>1. ended BY WaitStep
  <2>2. OneEnd BY DEF IInv, EndInv
  <2> QED BY <2>1, <2>2 DEF OneEnd, Speaking, IsOngoing, IsDialing
<1>2. Spec => [][faults = 0 /\ service = "wait_end" /\ service' = "idle" =>
            line \notin {"incoming", "outgoing"} \/ ~IsOngoing(actual)]_vars
  BY Inductive, <1>1, PTL DEF Spec
<1> QED BY <1>2 DEF WaitEndsWithTheCall
=============================================================================
