--------------------------- MODULE Messages_proofs ---------------------------
(***************************************************************************)
(* The list of texts is a record in time and what the script waited for is    *)
(* over when it goes on, for every longest wait, set of lengths and number of *)
(* frames and messages.  The inductive invariant adds that no message begins  *)
(* in the future, that a banner is never on for a known time, so that nobody  *)
(* waits for one, and that no message waited for outlasts the script's alarm. *)
(***************************************************************************)
EXTENDS Messages, SequenceTheorems, TLAPS

USE MessagesAssumption, LongestWaitAssumption

BegunByNow == \A i \in 1..Len(texts) : texts[i].frame <= clock

\* Nobody can have waited for a banner, which has no end to wait for or is over.
BannersAside == \A i \in Banners : ~Displayed(texts[i]) /\ i \notin read

ReadByAlarm ==
  /\ phase = "sleep" => \A i \in read : texts[i].end <= alarm
  /\ phase = "run" => \A i \in read : texts[i].end <= clock

NotTogether == \A i \in read, j \in 1..Len(texts) : i < j => texts[i].end <= texts[j].frame

IInv == TypeOK /\ BegunByNow /\ TextsInTime /\ BannersAside /\ ReadByAlarm /\ NotTogether

-----------------------------------------------------------------------------
LEMMA TextsTyped ==
  ASSUME NEW t \in Seq(TextRecord), NEW i \in 1..Len(t)
  PROVE  t[i].frame \in Nat /\ t[i].end \in Nat
<1>1. t[i] \in TextRecord
  BY ElementOfSeq
<1> QED
  BY <1>1 DEF TextRecord

LEMMA ReadTyped ==
  ASSUME TypeOK, NEW i \in read
  PROVE  i \in 1..Len(texts) /\ texts[i].end \in Nat
<1>1. texts \in Seq(TextRecord) /\ i \in 1..Len(texts)
  BY DEF TypeOK
<1> QED
  BY <1>1, TextsTyped

(* The three ways a native changes the list. *)

LEMMA EmitKeeps ==
  ASSUME TypeOK, BegunByNow, TextsInTime, clock' = clock,
         NEW text \in TextRecord, text.frame = clock,
         text.end >= clock \/ (text.kind = "banner" /\ text.end = 0),
         texts' = Append(texts, text)
  PROVE  /\ texts' \in Seq(TextRecord) /\ texts' # <<>> /\ Last(texts') = text
         /\ BegunByNow' /\ TextsInTime'
         /\ Len(texts) \in Nat /\ Len(texts') = Len(texts) + 1 /\ texts'[Len(texts) + 1] = text
         /\ \A i \in 1..Len(texts) : texts'[i] = texts[i]
<1>1. texts \in Seq(TextRecord) /\ clock \in Nat
  BY DEF TypeOK
<1>2. /\ texts' \in Seq(TextRecord) /\ Len(texts') = Len(texts) + 1
      /\ \A i \in 1..Len(texts) : texts'[i] = texts[i]
      /\ texts'[Len(texts) + 1] = text /\ Len(texts) \in Nat
  BY <1>1, AppendProperties, LenProperties
<1>3. texts' # <<>> /\ Last(texts') = text
  BY <1>2, EmptySeq DEF Last
<1>4. BegunByNow'
  BY <1>1, <1>2 DEF BegunByNow
<1>5. ASSUME NEW i \in 1..Len(texts'), NEW j \in 1..Len(texts'), i < j
      PROVE  texts'[i].frame <= texts'[j].frame
  <2>1. CASE j \in 1..Len(texts)
    BY <1>2, <1>5, <2>1 DEF TextsInTime
  <2>2. CASE j = Len(texts) + 1
    BY <1>2, <1>5, <2>2 DEF BegunByNow
  <2> QED
    BY <1>2, <2>1, <2>2
<1>6. ASSUME NEW i \in 1..Len(texts'), texts'[i].end < texts'[i].frame
      PROVE  i \in OpenBanners'
  <2>1. CASE i \in 1..Len(texts)
    BY <1>2, <1>6, <2>1 DEF TextsInTime, OpenBanners, Banners
  <2>2. CASE i = Len(texts) + 1
    BY <1>1, <1>2, <1>6, <2>2 DEF OpenBanners, Banners, TextRecord
  <2> QED
    BY <1>2, <2>1, <2>2
<1> QED
  BY <1>2, <1>3, <1>4, <1>5, <1>6 DEF TextsInTime

LEMMA DismissKeeps ==
  ASSUME TypeOK, BegunByNow, TextsInTime, clock' = clock,
         NEW i \in 1..Len(texts), texts' = [texts EXCEPT ![i].end = clock]
  PROVE  /\ texts' \in Seq(TextRecord) /\ BegunByNow' /\ TextsInTime'
         /\ Len(texts') = Len(texts)
         /\ \A j \in 1..Len(texts) : j # i => texts'[j] = texts[j]
         /\ texts'[i].end = clock /\ texts'[i].kind = texts[i].kind
         /\ \A j \in 1..Len(texts) : texts'[j].frame = texts[j].frame
<1> DEFINE t == [texts[i] EXCEPT !.end = clock]
<1>1. texts \in Seq(TextRecord) /\ clock \in Nat
  BY DEF TypeOK
<1>2. texts[i] \in TextRecord
  BY <1>1, ElementOfSeq
<1>3. t \in TextRecord /\ t.end = clock /\ t.frame = texts[i].frame /\ t.kind = texts[i].kind
  BY <1>1, <1>2 DEF TextRecord
<1> HIDE DEF t
<1>4. texts' = [texts EXCEPT ![i] = t]
  BY DEF t
<1>5. /\ texts' \in Seq(TextRecord) /\ Len(texts') = Len(texts)
      /\ \A j \in 1..Len(texts) : texts'[j] = IF j = i THEN t ELSE texts[j]
  BY <1>1, <1>3, <1>4, ExceptSeq
<1>6. \A j \in 1..Len(texts) : texts'[j].frame = texts[j].frame
  BY <1>3, <1>5
<1>7. BegunByNow'
  BY <1>5, <1>6 DEF BegunByNow
<1>8. ASSUME NEW j \in 1..Len(texts'), texts'[j].end < texts'[j].frame
      PROVE  j \in OpenBanners'
  <2>1. j # i
    <3>1. texts[i].frame <= clock /\ texts[i].frame \in Nat
      BY <1>2 DEF BegunByNow, TextRecord
    <3> QED
      BY <1>1, <1>3, <1>5, <1>8, <3>1
  <2> QED
    BY <1>5, <1>8, <2>1 DEF TextsInTime, OpenBanners, Banners
<1> QED
  BY <1>3, <1>5, <1>6, <1>7, <1>8 DEF TextsInTime

\* What the two lemmas leave of the messages waited for, while the script runs.
LEMMA EmitLeavesRead ==
  ASSUME IInv, phase = "run", clock' = clock, NEW text \in TextRecord, text.frame = clock,
         Len(texts) \in Nat, Len(texts') = Len(texts) + 1, texts'[Len(texts) + 1] = text,
         \A i \in 1..Len(texts) : texts'[i] = texts[i],
         read' = read \/ (read' = read \cup {Len(texts) + 1} /\ text.kind = "msg"),
         text.kind = "banner" => text.end = 0
  PROVE  /\ read' \subseteq 1..Len(texts') /\ BannersAside' /\ NotTogether'
         /\ \A i \in read : texts'[i].end <= clock
<1>1. read \subseteq 1..Len(texts) /\ clock \in Nat /\ \A i \in read : texts[i].end <= clock
  BY DEF IInv, TypeOK, ReadByAlarm
<1>2. read' \subseteq 1..Len(texts')
  <2>1. 1..Len(texts) \subseteq 1..Len(texts') /\ Len(texts) + 1 \in 1..Len(texts')
    OBVIOUS
  <2>2. read' \subseteq read \cup {Len(texts) + 1}
    OBVIOUS
  <2> QED
    BY <1>1, <2>1, <2>2
<1>3. BannersAside'
  <2> SUFFICES ASSUME NEW i \in Banners' PROVE ~(texts'[i].end > clock) /\ i \notin read'
    BY DEF BannersAside, Displayed
  <2>1. CASE i \in 1..Len(texts)
    BY <1>1, <2>1 DEF IInv, BannersAside, Banners, Displayed
  <2>2. CASE i = Len(texts) + 1
    BY <1>1, <2>2 DEF Banners
  <2> QED
    BY <2>1, <2>2 DEF Banners
<1>4. NotTogether'
  <2> SUFFICES ASSUME NEW i \in read', NEW j \in 1..Len(texts'), i < j
               PROVE  texts'[i].end <= texts'[j].frame
    BY DEF NotTogether
  <2>1. i \in read
    BY <1>2
  <2>2. CASE j \in 1..Len(texts)
    BY <1>1, <2>1, <2>2 DEF IInv, NotTogether
  <2>3. CASE j = Len(texts) + 1
    BY <1>1, <2>1, <2>3
  <2> QED
    BY <2>2, <2>3
<1> QED
  BY <1>1, <1>2, <1>3, <1>4

LEMMA DismissLeavesRead ==
  ASSUME IInv, phase = "run", phase' = "run", clock' = clock, read' = read, NEW i \in 1..Len(texts),
         i \in Banners \/ i = Len(texts), Len(texts') = Len(texts),
         \A j \in 1..Len(texts) : j # i => texts'[j] = texts[j],
         texts'[i].end = clock, texts'[i].kind = texts[i].kind,
         \A j \in 1..Len(texts) : texts'[j].frame = texts[j].frame
  PROVE  read' \subseteq 1..Len(texts') /\ BannersAside' /\ ReadByAlarm' /\ NotTogether'
<1>1. /\ read \subseteq 1..Len(texts) /\ clock \in Nat /\ Len(texts) \in Nat
      /\ \A j \in read : texts[j].end <= clock
  BY LenProperties DEF IInv, TypeOK, ReadByAlarm
<1>2. \A j \in read : texts'[j].end <= clock
  BY <1>1
<1>3. BannersAside'
  BY <1>1 DEF IInv, BannersAside, Banners, Displayed
<1>4. NotTogether'
  <2> SUFFICES ASSUME NEW k \in read, NEW j \in 1..Len(texts), k < j
               PROVE  texts'[k].end <= texts'[j].frame
    BY DEF NotTogether
  <2>1. k # i
    BY <1>1 DEF IInv, BannersAside
  <2> QED
    BY <1>1, <2>1 DEF IInv, NotTogether
<1> QED
  BY <1>1, <1>2, <1>3, <1>4 DEF ReadByAlarm

-----------------------------------------------------------------------------
LEMMA InitInv == Init => IInv
<1> SUFFICES ASSUME Init PROVE IInv
  OBVIOUS
<1>1. texts = <<>> /\ Len(texts) = 0 /\ clock = 0 /\ alarm = 0 /\ phase = "unborn" /\ read = {}
  BY DEF Init, ClockInit
<1>2. TypeOK
  BY <1>1 DEF TypeOK, Phases
<1> QED
  BY <1>1, <1>2 DEF IInv, BegunByNow, TextsInTime, BannersAside, Banners, ReadByAlarm, NotTogether

LEMMA NextInv == IInv /\ [Next]_vars => IInv'
<1> SUFFICES ASSUME IInv, [Next]_vars PROVE IInv'
  OBVIOUS
<1>0. TypeOK /\ BegunByNow /\ TextsInTime
  BY DEF IInv
<1>1. ASSUME NEW n \in Lengths, Msg(n) PROVE IInv'
  <2> DEFINE text == Text("msg", clock + n)
  <2>1. text \in TextRecord /\ text.frame = clock /\ text.end = clock + n /\ text.kind = "msg" /\ n \in Nat \ {0}
    BY <1>0 DEF Text, TextRecord, TypeOK
  <2>2. /\ texts' = Append(texts, text) /\ clock' = clock /\ phase = "run" /\ phase' = "sleep"
        /\ alarm' = clock + n /\ read' = read \cup {Len(texts')}
    BY <1>1 DEF Msg, Emit, Sleep
  <2> HIDE DEF text
  <2>3. /\ texts' \in Seq(TextRecord) /\ BegunByNow' /\ TextsInTime'
        /\ Len(texts) \in Nat /\ Len(texts') = Len(texts) + 1 /\ texts'[Len(texts) + 1] = text
        /\ \A i \in 1..Len(texts) : texts'[i] = texts[i]
    BY <1>0, <2>1, <2>2, EmitKeeps DEF TypeOK
  <2>4. /\ read' \subseteq 1..Len(texts') /\ BannersAside' /\ NotTogether'
        /\ \A i \in read : texts'[i].end <= clock
    BY <2>1, <2>2, <2>3, EmitLeavesRead
  <2>5. ReadByAlarm'
    <3> SUFFICES ASSUME NEW i \in read' PROVE texts'[i].end <= clock + n
      BY <2>2 DEF ReadByAlarm
    <3>1. CASE i = Len(texts')
      BY <1>0, <2>1, <2>3, <3>1 DEF TypeOK
    <3>2. CASE i \in read
      <4>1. texts'[i].end \in Nat
        BY <2>3, <2>4, TextsTyped
      <4> QED
        BY <1>0, <2>1, <2>4, <3>2, <4>1 DEF TypeOK
    <3> QED
      BY <2>2, <3>1, <3>2
  <2> QED
    BY <1>0, <2>1, <2>2, <2>3, <2>4, <2>5 DEF IInv, TypeOK, Phases
<1>2. ASSUME NEW text \in TextRecord, text.frame = clock, Native, Emit(text),
             (text.kind = "msg" /\ text.end >= clock) \/ (text.kind = "banner" /\ text.end = 0)
      PROVE  IInv'
  <2>1. /\ texts' = Append(texts, text) /\ clock' = clock /\ phase = "run" /\ phase' = "run"
        /\ alarm' = alarm /\ read' = read
    BY <1>2 DEF Native, Emit, clockVars
  <2>2. /\ texts' \in Seq(TextRecord) /\ BegunByNow' /\ TextsInTime'
        /\ Len(texts) \in Nat /\ Len(texts') = Len(texts) + 1 /\ texts'[Len(texts) + 1] = text
        /\ \A i \in 1..Len(texts) : texts'[i] = texts[i]
    BY <1>0, <1>2, <2>1, EmitKeeps
  <2>3. /\ read' \subseteq 1..Len(texts') /\ BannersAside' /\ NotTogether'
        /\ \A i \in read : texts'[i].end <= clock
    BY <1>2, <2>1, <2>2, EmitLeavesRead
  <2> QED
    BY <1>0, <2>1, <2>2, <2>3 DEF IInv, TypeOK, ReadByAlarm
<1>3. ASSUME NEW n \in Lengths, MsgAsync(n) PROVE IInv'
  <2>1. /\ Text("msg", clock + n) \in TextRecord /\ Text("msg", clock + n).frame = clock
        /\ Text("msg", clock + n).end >= clock /\ Text("msg", clock + n).kind = "msg"
    BY <1>0 DEF Text, TextRecord, TypeOK
  <2> QED
    BY <1>2, <1>3, <2>1 DEF MsgAsync
<1>4. CASE Message
  <2>1. /\ Text("banner", 0) \in TextRecord /\ Text("banner", 0).frame = clock
        /\ Text("banner", 0).end = 0 /\ Text("banner", 0).kind = "banner"
    BY <1>0 DEF Text, TextRecord, TypeOK
  <2> QED
    BY <1>2, <1>4, <2>1 DEF Message
<1>5. ASSUME Native, NEW i \in 1..Len(texts), i \in Banners \/ i = Len(texts),
             texts' = [texts EXCEPT ![i].end = clock]
      PROVE  IInv'
  <2>1. clock' = clock /\ phase = "run" /\ phase' = "run" /\ alarm' = alarm /\ read' = read
    BY <1>5 DEF Native, clockVars
  <2>2. /\ texts' \in Seq(TextRecord) /\ BegunByNow' /\ TextsInTime'
        /\ Len(texts') = Len(texts)
        /\ \A j \in 1..Len(texts) : j # i => texts'[j] = texts[j]
        /\ texts'[i].end = clock /\ texts'[i].kind = texts[i].kind
        /\ \A j \in 1..Len(texts) : texts'[j].frame = texts[j].frame
    BY <1>0, <1>5, <2>1, DismissKeeps
  <2>3. read' \subseteq 1..Len(texts') /\ BannersAside' /\ ReadByAlarm' /\ NotTogether'
    BY <1>5, <2>1, <2>2, DismissLeavesRead
  <2> QED
    BY <1>0, <2>1, <2>2, <2>3 DEF IInv, TypeOK
<1>6. CASE CloseMessage
  BY <1>5, <1>6 DEF CloseMessage, OpenBanners, Banners
<1>7. CASE CloseMsg
  <2>1. Len(texts) \in 1..Len(texts)
    BY <1>0, <1>7, EmptySeq, LenProperties DEF CloseMsg, TypeOK
  <2> QED
    BY <1>5, <1>7, <2>1 DEF CloseMsg
<1>8. CASE MsgFinishWait
  <2>0. texts \in Seq(TextRecord) /\ texts # <<>> /\ clock \in Nat
    BY <1>0, <1>8 DEF MsgFinishWait, TypeOK
  <2>1. /\ Len(texts) \in 1..Len(texts) /\ Last(texts) = texts[Len(texts)]
        /\ texts[Len(texts)] \in TextRecord
    <3>1. Len(texts) \in 1..Len(texts)
      BY <2>0, EmptySeq, LenProperties
    <3> QED
      BY <2>0, <3>1, ElementOfSeq DEF Last
  <2>2. /\ texts' = texts /\ clock' = clock /\ alarm' = texts[Len(texts)].end /\ phase' = "sleep"
        /\ phase = "run" /\ read' = read \cup {Len(texts)} /\ texts[Len(texts)].end > clock
        /\ texts[Len(texts)].end \in Nat
    BY <1>8, <2>0, <2>1 DEF MsgFinishWait, Sleep, Displayed, TextRecord
  <2>3. TypeOK' /\ BegunByNow' /\ TextsInTime'
    BY <1>0, <2>1, <2>2 DEF TypeOK, BegunByNow, TextsInTime, OpenBanners, Banners, Phases
  <2>4. BannersAside'
    BY <2>2 DEF IInv, BannersAside, Banners, Displayed
  <2>5. ReadByAlarm'
    <3> SUFFICES ASSUME NEW i \in read' PROVE texts[i].end <= texts[Len(texts)].end
      BY <2>2 DEF ReadByAlarm
    <3>1. CASE i \in read
      <4>1. texts[i].end <= clock
        BY <2>2, <3>1 DEF IInv, ReadByAlarm
      <4>2. texts[i].end \in Nat
        BY <1>0, <3>1, ReadTyped
      <4> QED
        BY <2>0, <2>2, <4>1, <4>2
    <3>2. CASE i = Len(texts)
      BY <2>2, <3>2
    <3> QED
      BY <2>2, <3>1, <3>2
  <2>6. NotTogether'
    BY <2>1, <2>2 DEF IInv, NotTogether
  <2> QED
    BY <2>3, <2>4, <2>5, <2>6 DEF IInv
<1>9. CASE OtherWait
  <2>1. PICK n \in 1..LongestWait : Sleep(n)
    BY <1>9 DEF OtherWait
  <2>2. /\ texts' = texts /\ read' = read /\ clock' = clock /\ phase = "run" /\ phase' = "sleep"
        /\ alarm' = clock + n /\ n \in Nat /\ clock \in Nat
    BY <1>0, <1>9, <2>1 DEF OtherWait, Sleep, TypeOK
  <2>3. ASSUME NEW i \in read PROVE texts[i].end <= clock + n
    <3>1. texts[i].end <= clock /\ texts[i].end \in Nat
      BY <1>0, <2>2, ReadTyped DEF IInv, ReadByAlarm
    <3> QED
      BY <2>2, <3>1
  <2> QED
    BY <1>0, <2>2, <2>3 DEF IInv, TypeOK, BegunByNow, TextsInTime, OpenBanners, Banners, BannersAside,
       Displayed, ReadByAlarm, NotTogether, Phases
<1>10. CASE Frame
  <2>1. /\ texts' = texts /\ read' = read /\ clock' = clock + 1 /\ alarm' = alarm
        /\ phase = "sleep" /\ phase' = (IF clock + 1 >= alarm THEN "run" ELSE "sleep")
        /\ clock \in Nat /\ alarm \in Nat
    BY <1>0, <1>10 DEF Frame, Tick, TypeOK
  <2>2. ASSUME NEW i \in 1..Len(texts)
        PROVE  texts[i].frame \in Nat /\ texts[i].end \in Nat
    BY <1>0, TextsTyped DEF TypeOK
  <2>3. BegunByNow'
    BY <1>0, <2>1, <2>2 DEF BegunByNow
  <2>4. TextsInTime' /\ NotTogether'
    BY <1>0, <2>1 DEF IInv, TextsInTime, NotTogether, OpenBanners, Banners
  <2>5. BannersAside'
    BY <2>1, <2>2 DEF IInv, BannersAside, Banners, Displayed
  <2>6. ReadByAlarm'
    <3>1. \A i \in read : texts[i].end \in Nat /\ texts[i].end <= alarm
      BY <1>0, <2>1, ReadTyped DEF IInv, ReadByAlarm
    <3>2. clock + 1 >= alarm => \A i \in read : texts[i].end <= clock + 1
      BY <2>1, <3>1
    <3>3. phase' = "run" => clock + 1 >= alarm
      BY <2>1
    <3> QED
      BY <2>1, <3>1, <3>2, <3>3 DEF ReadByAlarm
  <2> QED
    BY <1>0, <2>1, <2>3, <2>4, <2>5, <2>6 DEF IInv, TypeOK, Phases
<1>11. CASE Start
  <2>1. /\ texts' = <<>> /\ Len(texts') = 0 /\ clock' = 0 /\ alarm' = 0 /\ phase' = "run"
        /\ read' = {}
    BY <1>11 DEF Start, Begin
  <2>2. TypeOK'
    BY <2>1 DEF TypeOK, Phases
  <2> QED
    BY <2>1, <2>2 DEF IInv, BegunByNow, TextsInTime, BannersAside, Banners, ReadByAlarm, NotTogether
<1>12. CASE End
  BY <1>0, <1>12 DEF End, Return, Halt, IInv, TypeOK, BegunByNow, TextsInTime, OpenBanners, Banners,
     BannersAside, Displayed, ReadByAlarm, NotTogether, Phases
<1>13. CASE UNCHANGED vars
  BY <1>0, <1>13 DEF vars, clockVars, IInv, TypeOK, BegunByNow, TextsInTime, OpenBanners, Banners,
     BannersAside, Displayed, ReadByAlarm, NotTogether
<1> QED
  BY <1>1, <1>3, <1>4, <1>6, <1>7, <1>8, <1>9, <1>10, <1>11, <1>12, <1>13 DEF Next

THEOREM Invariance == Spec => []IInv
<1>1. Init => IInv
  BY InitInv
<1>2. IInv /\ [Next]_vars => IInv'
  BY NextInv
<1> QED
  BY <1>1, <1>2, PTL DEF Spec

\* A message has a kind and the two frames it is shown from and to, whatever closed it.
THEOREM TypeCorrect == Spec => []TypeOK
<1>1. IInv => TypeOK
  BY DEF IInv
<1> QED
  BY <1>1, Invariance, PTL

-----------------------------------------------------------------------------
\* The list is a record in time (registry_text.cpp:53-96, 212-234), whatever messages, banners
\* and dismissals follow one another.
THEOREM RecordInTime == Spec => []TextsInTime
<1>1. IInv => TextsInTime
  BY DEF IInv
<1> QED
  BY <1>1, Invariance, PTL

\* What the script waited for is over for good, and was shown with no later text
\* (registry_text.cpp:98-110, 221-229), whatever is emitted and closed in between.
THEOREM ReadOnce == Spec => []ReadAndOver
<1>1. IInv => ReadAndOver
  <2> SUFFICES ASSUME IInv, phase = "run", NEW i \in read PROVE ~(texts[i].end > clock)
    BY DEF IInv, NotTogether, ReadAndOver, Displayed
  <2>1. texts[i].end <= clock /\ clock \in Nat /\ texts[i].end \in Nat
    BY ReadTyped DEF IInv, TypeOK, ReadByAlarm
  <2> QED
    BY <2>1
<1> QED
  BY <1>1, Invariance, PTL

\* No native rewrites a message that is over, but for the newest (registry_text.cpp:205-234).
THEOREM PastOfTexts == Spec => OverStaysOver
<1> DEFINE Kept(i) == i \notin OpenBanners /\ ~Displayed(texts[i]) => texts'[i] = texts[i]
<1>1. ASSUME IInv, [Next]_vars, texts' # <<>>, NEW i \in 1..Len(texts) - 1
      PROVE  Kept(i)
  <2>1. i \in 1..Len(texts) /\ i # Len(texts)
    BY <1>1, LenProperties DEF IInv, TypeOK
  <2>2. ASSUME NEW text, texts' = Append(texts, text) PROVE Kept(i)
    BY <1>1, <2>1, <2>2 DEF IInv, TypeOK
  <2>3. CASE CloseMessage
    <3>1. PICK k \in OpenBanners : texts' = [texts EXCEPT ![k].end = clock]
      BY <2>3 DEF CloseMessage
    <3> QED
      BY <1>1, <2>1, <3>1 DEF IInv, TypeOK
  <2>4. CASE CloseMsg
    BY <1>1, <2>1, <2>4 DEF CloseMsg, IInv, TypeOK
  <2>5. CASE Start
    BY <1>1, <2>5 DEF Start
  <2>6. CASE texts' = texts
    BY <2>6
  <2> QED
    BY <1>1, <2>2, <2>3, <2>4, <2>5, <2>6
       DEF Next, Msg, MsgAsync, Message, Emit, MsgFinishWait, OtherWait, Frame, End, vars
<1>2. IInv /\ [Next]_vars =>
        [texts' # <<>> => \A i \in 1..Len(texts) - 1 : Kept(i)]_vars
  BY <1>1
<1> QED
  BY <1>2, Invariance, PTL DEF Spec, OverStaysOver

=============================================================================
