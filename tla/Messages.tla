------------------------------ MODULE Messages ------------------------------
(***************************************************************************)
(* Dialogue, balloons and banners (registry_text.cpp): the list             *)
(* SceneState::texts that the natives append to, the natives that park the   *)
(* script until a message has been read, and those that dismiss one.         *)
(*                                                                         *)
(* Of a message the model keeps its kind, and the frames it is shown from    *)
(* and to.  The time text_duration() gives it is any of `Lengths`.           *)
(***************************************************************************)
EXTENDS ScriptClock, SequencesExt

CONSTANTS
  Lengths,    \* frames a message is displayed for
  MaxClock,   \* bound: frames
  MaxTexts    \* bound: messages

ASSUME MessagesAssumption ==
  /\ Lengths \subseteq 1..LongestWait
  /\ MaxClock \in Nat /\ MaxTexts \in Nat

VARIABLES
  texts,     \* SceneState::texts
  read       \* history: the places in `texts` of those the script was parked to be read

vars == <<clockVars, texts, read>>

\* RuntimeText: a "msg" is any kind but Kind::Message, the "banner".
Text(kind, end) == [kind |-> kind, frame |-> clock, end |-> end]

Displayed(t) == t.end > clock

Banners == {i \in 1..Len(texts) : texts[i].kind = "banner"}
OpenBanners == {i \in Banners : texts[i].end = 0}

-----------------------------------------------------------------------------
Init ==
  /\ ClockInit
  /\ texts = <<>>
  /\ read = {}

Native == phase = "run" /\ UNCHANGED <<clockVars, read>>

Emit(text) == Len(texts) < MaxTexts /\ texts' = Append(texts, text)

\* Msg, MsgScreen, SelectMsg*, MsgStageVoice, Dialog, YNDialog, CommonMsg: emit() and
\* block_text().
Msg(n) ==
  /\ Emit(Text("msg", clock + n))
  /\ Sleep(n)
  /\ read' = read \cup {Len(texts')}

\* MsgAsync, MsgScreenAsync, StShowTutorialMsg, CreateSpriteText.
MsgAsync(n) == Native /\ Emit(Text("msg", clock + n))

\* Message: a banner, open until it is closed.
Message == Native /\ Emit(Text("banner", 0))

\* Mutant: closes the newest banner, open or not.
CloseAnyBanner ==
  /\ Native
  /\ \E i \in Banners : /\ \A j \in Banners : j <= i
                       /\ texts' = [texts EXCEPT ![i].end = clock]

\* CloseMessage dismisses the newest banner that is open.
CloseMessage ==
  /\ Native
  /\ \E i \in OpenBanners : /\ \A j \in OpenBanners : j <= i
                           /\ texts' = [texts EXCEPT ![i].end = clock]

\* Mutant: dismissed at once written as 0.
CloseMsgAsZero ==
  /\ Native
  /\ texts # <<>>
  /\ texts' = [texts EXCEPT ![Len(texts)].end = 0]

\* CloseMsg dismisses the newest message, of whatever kind.
CloseMsg ==
  /\ Native
  /\ texts # <<>>
  /\ texts' = [texts EXCEPT ![Len(texts)].end = clock]

\* Mutant: waits for the oldest message.
MsgFinishWaitOldest ==
  /\ texts # <<>>
  /\ Displayed(Head(texts))
  /\ Sleep(Head(texts).end - clock)
  /\ read' = read \cup {Len(texts)}
  /\ UNCHANGED texts

MsgFinishWait ==
  /\ texts # <<>>
  /\ Displayed(Last(texts))
  /\ Sleep(Last(texts).end - clock)
  /\ read' = read \cup {Len(texts)}
  /\ UNCHANGED texts

OtherWait ==
  /\ \E n \in 1..LongestWait : Sleep(n)
  /\ UNCHANGED <<texts, read>>

Frame == clock < MaxClock /\ Tick /\ UNCHANGED <<texts, read>>

Start ==
  /\ Begin
  /\ texts' = <<>>
  /\ read' = {}

End == (Return \/ Halt) /\ UNCHANGED <<texts, read>>

Next ==
  \/ \E n \in Lengths : Msg(n) \/ MsgAsync(n)
  \/ Message \/ CloseMessage \/ CloseMsg \/ MsgFinishWait
  \/ OtherWait \/ Frame \/ Start \/ End

Spec == Init /\ [][Next]_vars

-----------------------------------------------------------------------------
TextRecord == [kind : {"msg", "banner"}, frame : Nat, end : Nat]

\* A message has a kind and the two frames it is shown from and to.
TypeOK ==
  /\ clock \in Nat /\ alarm \in Nat /\ phase \in Phases
  /\ texts \in Seq(TextRecord)
  /\ read \subseteq 1..Len(texts)

\* The list is a record in time: a message begins no earlier than the ones before it, and
\* is never dismissed before it began, unless it is a banner that is open.
TextsInTime ==
  /\ \A i, j \in 1..Len(texts) : i < j => texts[i].frame <= texts[j].frame
  /\ \A i \in 1..Len(texts) : texts[i].end < texts[i].frame => i \in OpenBanners

\* Messages the script waited for are read one after another: a script that runs finds every
\* message it was ever parked by off the screen, whatever was emitted or closed since then,
\* and no later text was shown together with one of them (block_text() and MsgFinishWait,
\* registry_text.cpp:98, 221).
ReadAndOver ==
  /\ phase = "run" => \A i \in read : ~Displayed(texts[i])
  /\ \A i \in read, j \in 1..Len(texts) : i < j => texts[i].end <= texts[j].frame

\* The past is not rewritten: a message that is over keeps its end.  The newest one is
\* excepted, which CloseMsg closes again (registry_text.cpp:232).
OverStaysOver ==
  [][texts' # <<>> =>
       \A i \in 1..Len(texts) - 1 :
         i \notin OpenBanners /\ ~Displayed(texts[i]) => texts'[i] = texts[i]]_vars

=============================================================================
