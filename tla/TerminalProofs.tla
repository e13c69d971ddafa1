---------------------------- MODULE TerminalProofs ----------------------------
(***************************************************************************)
(* For any number of contacts, names and groups and any length of history: *)
(* types, texts that stay at their prompt, prompts that are answered, and  *)
(* prompts that say where a line goes.                                     *)
(***************************************************************************)
EXTENDS Terminal, TLAPS

-----------------------------------------------------------------------------
(* The line.  What it holds and where its text was typed depend on the keys
   and on the ends of a line; a handler or a command in flight at most puts
   another prompt before it. *)

LineOK == ShellTypeOK /\ TextStaysPut

LEMMA PushKeepsLines ==
  ASSUME LineOK, asking = "no"
  PROVE  /\ Push(buffer) \in Seq(Text) /\ Len(Push(buffer)) <= MaxHistory
         /\ \A i \in DOMAIN Push(buffer) : Push(buffer)[i] \subseteq {"line"}
<1>1. /\ buffer \in Text /\ buffer \subseteq {"line"} /\ history \in Seq(Text)
      /\ Len(history) <= MaxHistory /\ \A i \in DOMAIN history : history[i] \subseteq {"line"}
  BY DEF LineOK, ShellTypeOK, TextStaysPut, TypedAt
<1> DEFINE longer == Append(history, buffer)
<1>2. /\ longer \in Seq(Text) /\ Len(longer) = Len(history) + 1
      /\ \A i \in 1..Len(longer) : longer[i] \subseteq {"line"}
  <2>1. /\ longer \in Seq(Text) /\ Len(longer) = Len(history) + 1 /\ Len(history) \in Nat
        /\ \A i \in 1..Len(history) : longer[i] = history[i]
        /\ longer[Len(history) + 1] = buffer
    BY <1>1
  <2>2. \A i \in 1..Len(history) : history[i] \subseteq {"line"}
    BY <1>1
  <2>3. \A i \in 1..Len(longer) : i \in 1..Len(history) \/ i = Len(history) + 1
    BY <2>1
  <2> QED BY <1>1, <2>1, <2>2, <2>3
<1>3. CASE Len(longer) > MaxHistory
  <2>1. Push(buffer) = Tail(longer)
    BY <1>3 DEF Push
  <2>2. /\ Tail(longer) \in Seq(Text) /\ Len(Tail(longer)) = Len(history)
        /\ \A i \in 1..Len(Tail(longer)) : Tail(longer)[i] = longer[i + 1] /\ i + 1 \in 1..Len(longer)
    BY <1>2, <1>1
  <2> QED BY <1>1, <1>2, <2>1, <2>2
<1>4. CASE ~(Len(longer) > MaxHistory)
  <2>1. Push(buffer) = longer
    BY <1>4 DEF Push
  <2> QED BY <1>2, <1>4, <2>1, HistoryBound
<1> QED BY <1>3, <1>4

LEMMA RedrawTyped ==
  ASSUME NEW edited \in BOOLEAN, Redraw(edited)
  PROVE  dropdown' \in {"closed", "open", "picked", "hushed"}
BY DEF Redraw

LEMMA SubmitKeepsLine ==
  ASSUME LineOK, SubmitLine, asking' \in {"no", "answer", "secret"},
         asking' = "no" => savedPrompt' = Home
  PROVE  LineOK'
<1>1. /\ history' \in Seq(Text) /\ Len(history') <= MaxHistory
      /\ \A i \in DOMAIN history' : history'[i] \subseteq {"line"}
  <2>1. CASE history' = history
    BY <2>1 DEF LineOK, ShellTypeOK, TextStaysPut
  <2>2. CASE history' = Push(buffer)
    BY <2>2, PushKeepsLines DEF SubmitLine
  <2> QED BY <2>1, <2>2 DEF SubmitLine
<1>2. buffer' = {} /\ historyIndex' = 0 /\ dropdown' = "closed" /\ draft' = draft
  BY DEF SubmitLine, ClearLine
<1>3. 0 \in 0..Len(history')
  BY <1>1
<1> QED BY <1>1, <1>2, <1>3 DEF LineOK, ShellTypeOK, TextStaysPut, Text

LEMMA SettleKeepsLine ==
  ASSUME LineOK, Settle
  PROVE  LineOK'
<1>1. 0 \in 0..Len(history)
  BY DEF LineOK, ShellTypeOK
<1> QED BY <1>1 DEF Settle, ClearLine, LineOK, ShellTypeOK, TextStaysPut, Text

LEMMA AbandonKeepsLine ==
  ASSUME LineOK, AbandonLine
  PROVE  LineOK'
<1>1. 0 \in 0..Len(history)
  BY DEF LineOK, ShellTypeOK
<1> QED BY <1>1 DEF AbandonLine, ClearLine, SamePrompt, LineOK, ShellTypeOK, TextStaysPut, Text

LEMMA ReadKeepsLine ==
  ASSUME LineOK, NEW kind \in {"answer", "secret"}, ReadInput(kind)
  PROVE  LineOK'
<1>1. 0 \in 0..Len(history)
  BY DEF LineOK, ShellTypeOK
<1> QED BY <1>1 DEF ReadInput, Ask, ClearLine, LineOK, ShellTypeOK, TextStaysPut, Text

LEMMA PromptKeepsLine ==
  ASSUME LineOK, SetPrompt
  PROVE  LineOK'
<1>1. dropdown' \in {"closed", "open", "picked", "hushed"}
  BY RedrawTyped DEF SetPrompt
<1> QED BY <1>1 DEF SetPrompt, LineOK, ShellTypeOK, TextStaysPut, TypedAt

LEMMA FillKeepsLine ==
  ASSUME LineOK, NEW text \in Text, Fill(text), text \subseteq {TypedAt},
         history' = history, historyIndex' \in 0..Len(history),
         draft' \in Text, draft' \subseteq {"line"}
  PROVE  LineOK'
<1>1. dropdown' \in {"closed", "open", "picked", "hushed"}
  BY RedrawTyped DEF Fill
<1> QED BY <1>1 DEF Fill, SamePrompt, LineOK, ShellTypeOK, TextStaysPut, TypedAt

LEMMA KeyKeepsLine ==
  ASSUME LineOK, Key
  PROVE  LineOK'
<1> USE DEF LineOK
<1>0. TypedAt \in {"line", "answer", "secret"} /\ (asking = "no" => TypedAt = "line")
  BY DEF ShellTypeOK, TypedAt
<1>1. CASE Type
  <2>1. buffer \cup {TypedAt} \in Text /\ buffer \cup {TypedAt} \subseteq {TypedAt}
    BY <1>0 DEF ShellTypeOK, TextStaysPut, Text
  <2> QED BY <1>1, <2>1, FillKeepsLine DEF Type, ShellTypeOK, TextStaysPut
<1>2. CASE Erase
  <2>1. PICK rest \in SUBSET buffer : Fill(rest)
    BY <1>2 DEF Erase
  <2>2. rest \in Text /\ rest \subseteq {TypedAt}
    BY DEF ShellTypeOK, TextStaysPut, Text
  <2> QED BY <1>2, <2>1, <2>2, FillKeepsLine DEF Erase, ShellTypeOK, TextStaysPut
<1>3. CASE MoveCursor
  <2>1. dropdown' \in {"closed", "open", "picked", "hushed"}
    BY <1>3, RedrawTyped DEF MoveCursor
  <2> QED BY <1>3, <2>1 DEF MoveCursor, SamePrompt, ShellTypeOK, TextStaysPut, TypedAt
<1>4. CASE Highlight
  BY <1>4 DEF Highlight, SamePrompt, ShellTypeOK, TextStaysPut, TypedAt
<1>5. CASE HistoryPrev
  <2>1. Len(history) \in Nat /\ Len(history) # 0 /\ historyIndex \in 0..Len(history)
    BY <1>5 DEF HistoryPrev, ShellTypeOK
  <2>2. historyIndex' \in 1..Len(history)
    BY <1>5, <2>1 DEF HistoryPrev
  <2>3. history[historyIndex'] \in Text /\ history[historyIndex'] \subseteq {"line"}
    BY <2>2 DEF ShellTypeOK, TextStaysPut
  <2>4. draft' \in Text /\ draft' \subseteq {"line"}
    BY <1>5, <1>0 DEF HistoryPrev, ShellTypeOK, TextStaysPut
  <2>5. historyIndex' \in 0..Len(history)
    BY <2>2
  <2>6. Fill(history[historyIndex']) /\ history' = history /\ asking = "no"
    BY <1>5 DEF HistoryPrev
  <2> QED BY <2>3, <2>4, <2>5, <2>6, <1>0, FillKeepsLine
<1>6. CASE HistoryNext
  <2>1. Len(history) \in Nat /\ historyIndex \in 0..Len(history) /\ historyIndex # 0
    BY <1>6 DEF HistoryNext, ShellTypeOK
  <2>2. CASE historyIndex < Len(history)
    <3>1. historyIndex' \in 1..Len(history) /\ historyIndex' \in 0..Len(history)
      BY <1>6, <2>1, <2>2 DEF HistoryNext
    <3>2. history[historyIndex'] \in Text /\ history[historyIndex'] \subseteq {"line"}
      BY <3>1 DEF ShellTypeOK, TextStaysPut
    <3>3. Fill(history[historyIndex']) /\ history' = history /\ asking = "no"
      BY <1>6, <2>2 DEF HistoryNext
    <3>4. draft' \in Text /\ draft' \subseteq {"line"}
      BY <1>6 DEF HistoryNext, ShellTypeOK, TextStaysPut
    <3> QED BY <3>1, <3>2, <3>3, <3>4, <1>0, FillKeepsLine
  <2>3. CASE ~(historyIndex < Len(history))
    <3>1. Fill(draft) /\ history' = history /\ asking = "no" /\ draft' = draft /\ historyIndex' = 0
      BY <1>6, <2>3 DEF HistoryNext
    <3>2. draft \in Text /\ draft \subseteq {"line"}
      BY DEF ShellTypeOK, TextStaysPut
    <3>3. historyIndex' \in 0..Len(history)
      BY <2>1, <3>1
    <3> QED BY <3>1, <3>2, <3>3, <1>0, FillKeepsLine
  <2> QED BY <2>2, <2>3
<1>7. CASE Escape
  BY <1>7 DEF Escape, SamePrompt, ShellTypeOK, TextStaysPut, TypedAt
<1>8. CASE AcceptRow
  <2>1. {"line"} \in Text /\ {"line"} \subseteq {TypedAt}
    BY <1>8, <1>0 DEF AcceptRow, NavActive, Text
  <2> QED BY <1>8, <2>1, FillKeepsLine DEF AcceptRow, ShellTypeOK, TextStaysPut
<1>9. CASE Complete
  <2>1. buffer \cup {"line"} \in Text /\ buffer \cup {"line"} \subseteq {TypedAt}
    BY <1>9, <1>0 DEF Complete, ShellTypeOK, TextStaysPut, Text
  <2> QED BY <1>9, <2>1, FillKeepsLine DEF Complete, ShellTypeOK, TextStaysPut
<1>10. CASE PickRow
  <2>1. {"line"} \in Text
    BY DEF Text
  <2> QED BY <1>10, <2>1, <1>0 DEF PickRow, SamePrompt, ShellTypeOK, TextStaysPut, TypedAt
<1> QED BY <1>1, <1>2, <1>3, <1>4, <1>5, <1>6, <1>7, <1>8, <1>9, <1>10 DEF Key

-----------------------------------------------------------------------------
(* The command in flight. *)

LEMMA Begins ==
  ASSUME NEW cmd, NEW on, NEW asks
  PROVE  /\ Flow(cmd, on, asks).cmd = cmd /\ Flow(cmd, on, asks).on = on
         /\ Flow(cmd, on, asks).asks = asks /\ Flow(cmd, on, asks).at = "work"
         /\ Flow(cmd, on, asks) # Idle
BY DEF Flow, Idle

Commands == {"none", "plain", "register", "recover", "rebuild", "login", "logout", "wipe", "purge",
             "remove", "removeAll", "rename", "open", "leave", "return"}
Targets == Uid \cup Group \cup {NoOne, Home}

LEMMA FlowTyped ==
  ASSUME NEW cmd \in Commands, NEW on \in Targets, NEW asks \in Seq({"answer", "secret"})
  PROVE  /\ Flow(cmd, on, asks) \in FlowType
         /\ Idle \in FlowType /\ Idle.at = "idle" /\ Idle.cmd = "none"
BY DEF Flow, Idle, FlowType, Commands, Targets

LEMMA FlowMoves ==
  ASSUME NEW f \in FlowType, NEW at \in {"work", "prompt", "end"}
  PROVE  /\ [f EXCEPT !.at = at] \in FlowType
         /\ [f EXCEPT !.at = at] # Idle
         /\ [f EXCEPT !.at = at].at = at
         /\ [f EXCEPT !.at = at].cmd = f.cmd /\ [f EXCEPT !.at = at].on = f.on
         /\ f.cmd \in Commands /\ f.on \in Targets /\ f.asks \in Seq({"answer", "secret"})
BY DEF FlowType, Idle, Commands, Targets

LEMMA FlowAsks ==
  ASSUME NEW f \in FlowType, f.asks # <<>>
  PROVE  /\ Head(f.asks) \in {"answer", "secret"}
         /\ [f EXCEPT !.at = "prompt", !.asks = Tail(@)] \in FlowType
         /\ [f EXCEPT !.at = "prompt", !.asks = Tail(@)].at = "prompt"
         /\ [f EXCEPT !.at = "prompt", !.asks = Tail(@)].cmd = f.cmd
         /\ [f EXCEPT !.at = "prompt", !.asks = Tail(@)].on = f.on
<1>1. Head(f.asks) \in {"answer", "secret"} /\ Tail(f.asks) \in Seq({"answer", "secret"})
  BY DEF FlowType
<1> QED BY <1>1 DEF FlowType

LEMMA Questions ==
  /\ <<>> \in Seq({"answer", "secret"})
  /\ <<"answer">> \in Seq({"answer", "secret"})
  /\ <<"secret">> \in Seq({"answer", "secret"})
  /\ <<"secret", "secret">> \in Seq({"answer", "secret"})
  /\ <<"secret", "secret", "secret">> \in Seq({"answer", "secret"})
  /\ <<"answer", "secret", "secret">> \in Seq({"answer", "secret"})
  /\ <<"secret", "secret", "secret", "answer">> \in Seq({"answer", "secret"})
  /\ <<"answer", "secret", "secret", "secret">> \in Seq({"answer", "secret"})
  /\ <<"answer", "answer", "secret", "secret", "secret">> \in Seq({"answer", "secret"})
OBVIOUS

LEMMA CommandsTyped ==
  ASSUME NEW f \in Asking \cup Silent
  PROVE  /\ f[1] \in Commands \ {"none", "wipe", "purge", "removeAll"} /\ f[2] \in Targets
         /\ f[3] \in Seq({"answer", "secret"})
         /\ f[1] \in {"open", "leave"} => f[2] \in Group
<1>1. CASE f \in Asking
  <2>1. f[1] \in {"register", "recover", "login", "plain"} /\ f[2] = NoOne
    BY <1>1 DEF Asking
  <2>2. \/ f[3] = <<"secret", "secret">>
        \/ f[3] = <<"answer", "secret", "secret", "secret">>
        \/ f[3] = <<"answer", "answer", "secret", "secret", "secret">>
        \/ f[3] = <<"secret">>
        \/ f[3] = <<"secret", "secret", "secret">>
        \/ f[3] = <<"secret", "secret", "secret", "answer">>
        \/ f[3] = <<"answer">>
    BY <1>1 DEF Asking
  <2>3. f[3] \in Seq({"answer", "secret"})
    BY <2>2, Questions
  <2> QED BY <2>1, <2>3 DEF Commands, Targets
<1>2. CASE f \in Silent
  <2>1. f[3] = <<>>
    BY <1>2 DEF Silent
  <2>2. f[1] \in {"plain", "logout", "remove", "rename", "open", "leave"} /\ f[2] \in Targets
    BY <1>2 DEF Silent, Targets
  <2>3. f[1] \in {"open", "leave"} => f[2] \in Group
    BY <1>2 DEF Silent
  <2> QED BY <2>1, <2>2, <2>3, Questions DEF Commands
<1> QED BY <1>1, <1>2

LEMMA AskingTyped ==
  ASSUME NEW f \in AskingAtOnce
  PROVE  /\ f[1] \in {"removeAll", "plain"}
         /\ Tail(f[2]) \in Seq({"answer", "secret"}) /\ Head(f[2]) = "answer"
<1>1. /\ f[1] \in {"removeAll", "plain"}
      /\ f[2] = <<"answer">> \/ f[2] = <<"answer", "secret", "secret">>
  BY DEF AskingAtOnce
<1>2. f[2] \in Seq({"answer", "secret"}) /\ f[2] # <<>> /\ Head(f[2]) = "answer"
  <2>1. CASE f[2] = <<"answer">>
    BY <2>1, Questions
  <2>2. CASE f[2] = <<"answer", "secret", "secret">>
    BY <2>2, Questions
  <2> QED BY <1>1, <2>1, <2>2
<1>3. Tail(f[2]) \in Seq({"answer", "secret"})
  BY <1>2
<1> QED BY <1>1, <1>2, <1>3

-----------------------------------------------------------------------------
(* What a step does to the line. *)

LEMMA LineAlways ==
  ASSUME LineOK, flow \in FlowType, [Next]_vars
  PROVE  LineOK'
<1>1. CASE Key
  BY <1>1, KeyKeepsLine
<1>2. CASE HandleLine
  <2>1. SubmitLine
    BY <1>2 DEF HandleLine, Ignored, Shown, Message, GoHome, Chat, Lock, Wipe, Return,
         Command, CommandAsks, Line
  <2>2. asking = "no" /\ savedPrompt = Home
    BY <2>1 DEF SubmitLine, LineOK, ShellTypeOK
  <2>3. \/ asking' = asking /\ savedPrompt' = savedPrompt
        \/ \E f \in AskingAtOnce : Ask(Head(f[2]))
    BY <1>2 DEF HandleLine, Ignored, Shown, Message, GoHome, Chat, Lock, Wipe, Return,
         Command, CommandAsks, SamePrompt
  <2>4. asking' \in {"no", "answer", "secret"} /\ (asking' = "no" => savedPrompt' = Home)
    BY <2>2, <2>3, AskingTyped DEF Ask
  <2> QED BY <2>1, <2>4, SubmitKeepsLine
<1>3. CASE Answer
  BY <1>3, SettleKeepsLine DEF Answer
<1>4. CASE Cancel
  BY <1>4, SettleKeepsLine, AbandonKeepsLine DEF Cancel
<1>5. CASE AskNext
  BY <1>5, ReadKeepsLine, FlowAsks DEF AskNext
<1>6. ASSUME SetPrompt \/ UNCHANGED shellVars
      PROVE  LineOK'
  <2>1. CASE SetPrompt
    BY <2>1, PromptKeepsLine
  <2>2. CASE UNCHANGED shellVars
    BY <2>2 DEF shellVars, LineOK, ShellTypeOK, TextStaysPut, TypedAt
  <2> QED BY <1>6, <2>1, <2>2
<1>7. CASE FlowStep /\ ~AskNext
  <2>1. SetPrompt \/ UNCHANGED shellVars
    BY <1>7 DEF FlowStep, Finish, Register, Recover, WipeForRecover, Unlock, Duress, Purge, Logout, Remove,
         RemoveAll, GoHomeAfterRemoval, Rename, Open, Leave, ReturnToGroup, shellVars
  <2> QED BY <1>6, <2>1
<1>8. CASE AutoLock \/ LeftBehind \/ UNCHANGED vars
  <2>1. SetPrompt \/ UNCHANGED shellVars
    BY <1>8 DEF AutoLock, LeftBehind, vars
  <2> QED BY <1>6, <2>1
<1> QED BY <1>1, <1>2, <1>3, <1>4, <1>5, <1>7, <1>8 DEF Next

-----------------------------------------------------------------------------
(* What a step does to the rest. *)

FlowOK ==
  /\ prompt \in Alias \cup Group \cup {Home} \cup (IF asking = "no" THEN {} ELSE {Question})
  /\ savedPrompt \in Alias \cup Group \cup {Home}
  /\ flow \in FlowType
  /\ (flow.at = "idle") <=> (flow = Idle)
  /\ flow.cmd \in {"open", "leave"} => flow.on \in Group
  /\ store \in {"none", "locked", "unlocked"} /\ timer \in {"off", "armed"}
  /\ active \in (Uid \X Alias) \cup {NoOne}
  /\ activeGroup \in Group \cup {NoOne}
  /\ previousView \in Uid \cup Group \cup {Home, NoOne}
  /\ wipeRequested \in BOOLEAN /\ stranded \in BOOLEAN

FocusOK == PromptNamesFocus /\ OneFocus /\ StrandedInGroup /\ PurgeShowsNoGroup

RestOK == FlowOK /\ PromptAnswered /\ FocusOK /\ IdleIsTimed

LEMMA Parts == IInv <=> LineOK /\ RestOK
BY DEF IInv, LineOK, RestOK, FocusOK, FlowOK, TypeOK

(* A line that is submitted. *)

LEMMA RunKeeps ==
  ASSUME RestOK, NEW f, f = Idle \/ (f \in FlowType /\ f.at = "work"), Run(f),
         UNCHANGED <<asking, store>>, asking = "no"
  PROVE  /\ flow' \in FlowType /\ timer' \in {"off", "armed"}
         /\ (flow'.at = "idle") <=> (flow' = Idle)
         /\ PromptAnswered' /\ (f # Idle \/ flow # Idle => IdleIsTimed')
<1>1. Idle \in FlowType /\ Idle.at = "idle"
  BY Questions DEF Idle, FlowType
<1> QED BY <1>1 DEF RestOK, FlowOK, Run, PromptAnswered, IdleIsTimed, Touched

LEMMA TouchKeeps ==
  ASSUME RestOK, UNCHANGED <<asking, store, flow>>, timer' = Touched
  PROVE  /\ flow' \in FlowType /\ timer' \in {"off", "armed"}
         /\ (flow'.at = "idle") <=> (flow' = Idle)
         /\ PromptAnswered' /\ IdleIsTimed'
BY DEF RestOK, FlowOK, PromptAnswered, IdleIsTimed, Touched

LEMMA LockKeeps ==
  ASSUME RestOK, lockLocal, UNCHANGED <<prompt, asking, savedPrompt, active, wipeRequested>>
  PROVE  /\ store' \in {"none", "locked"} /\ timer' = "off"
         /\ activeGroup' = NoOne /\ previousView' = NoOne /\ stranded' = FALSE
         /\ PromptNamesFocus' /\ OneFocus' /\ StrandedInGroup' /\ PurgeShowsNoGroup' /\ IdleIsTimed'
<1>1. /\ store' \in {"none", "locked"} /\ timer' = "off"
      /\ activeGroup' = NoOne /\ previousView' = NoOne /\ stranded' = FALSE
  BY DEF lockLocal, RestOK, FlowOK
<1>2. PromptNamesFocus'
  BY <1>1 DEF RestOK, FocusOK, FlowOK, PromptNamesFocus, LineGoesWherePromptSays, ShownPrompt,
       OneFocus, StrandedInGroup
<1> QED BY <1>1, <1>2 DEF OneFocus, StrandedInGroup, PurgeShowsNoGroup, IdleIsTimed

LEMMA GoKeeps ==
  ASSUME asking' = "no", NEW contact, NEW group, GoTo(contact, group),
         \/ contact \in Uid \X Alias /\ group = NoOne
         \/ contact = NoOne /\ group \in Group \cup {NoOne}
  PROVE  /\ prompt' \in Alias \cup Group \cup {Home}
         /\ active' \in (Uid \X Alias) \cup {NoOne} /\ activeGroup' \in Group \cup {NoOne}
         /\ stranded' = FALSE /\ PromptNamesFocus' /\ OneFocus' /\ StrandedInGroup'
<1>1. CASE contact \in Uid \X Alias /\ group = NoOne
  <2>1. contact # NoOne /\ contact[2] \in Alias
    BY <1>1, Distinct
  <2> QED BY <1>1, <2>1 DEF GoTo, Focus, PromptNamesFocus, LineGoesWherePromptSays, ShownPrompt, OneFocus, StrandedInGroup
<1>2. CASE contact = NoOne /\ group = NoOne
  BY <1>2 DEF GoTo, Focus, PromptNamesFocus, LineGoesWherePromptSays, ShownPrompt, OneFocus, StrandedInGroup
<1>3. CASE contact = NoOne /\ group \in Group
  <2>1. group # NoOne
    BY <1>3, Distinct
  <2> QED BY <1>3, <2>1 DEF GoTo, Focus, PromptNamesFocus, LineGoesWherePromptSays, ShownPrompt, OneFocus, StrandedInGroup
<1> QED BY <1>1, <1>2, <1>3

LEMMA ViewTyped ==
  ASSUME RestOK
  PROVE  CurrentView \in Uid \cup Group \cup {Home}
<1>1. active # NoOne => active[1] \in Uid
  BY DEF RestOK, FlowOK
<1> QED BY <1>1 DEF RestOK, FlowOK, CurrentView

LEMMA LineKeeps ==
  ASSUME RestOK, LineOK, HandleLine
  PROVE  RestOK'
<1>0. asking = "no" /\ wipeRequested' \in BOOLEAN
  BY DEF HandleLine, Ignored, Shown, Message, GoHome, Chat, Lock, Wipe, Return,
       Command, CommandAsks, Line, SubmitLine, RestOK, FlowOK
<1>t. /\ <<>> \in Seq({"answer", "secret"}) /\ NoOne \in Targets
      /\ Flow("plain", NoOne, <<>>) \in FlowType /\ Flow("wipe", NoOne, <<>>) \in FlowType
      /\ Flow("return", previousView, <<>>) \in FlowType
  BY Questions, FlowTyped DEF Targets, Commands, RestOK, FlowOK
<1>1. CASE Ignored \/ Shown
  <2>1. SamePrompt /\ SameFocus /\ UNCHANGED <<flow, store>> /\ timer' = Touched
    BY <1>1 DEF Ignored, Shown
  <2>2. /\ flow' \in FlowType /\ timer' \in {"off", "armed"}
        /\ (flow'.at = "idle") <=> (flow' = Idle)
        /\ PromptAnswered' /\ IdleIsTimed'
    BY <2>1, TouchKeeps DEF SamePrompt
  <2> QED BY <1>0, <2>1, <2>2 DEF SamePrompt, SameFocus, RestOK, FlowOK, FocusOK,
       PromptNamesFocus, LineGoesWherePromptSays, ShownPrompt, OneFocus, StrandedInGroup,
       PurgeShowsNoGroup
<1>2. ASSUME NEW f \in FlowType, f.at = "work", f.cmd \notin {"wipe", "purge"}, Run(f),
             f.cmd \in {"open", "leave"} => f.on \in Group,
             SamePrompt, SameFocus, UNCHANGED store
      PROVE  RestOK'
  <2>1. f # Idle
    BY <1>2 DEF Idle
  <2>2. flow' = f \/ flow' = flow
    BY <1>2 DEF Run
  <2> QED BY <1>0, <1>2, <2>1, <2>2, RunKeeps DEF SamePrompt, SameFocus, RestOK, FlowOK, FocusOK,
       PromptNamesFocus, LineGoesWherePromptSays, ShownPrompt, OneFocus, StrandedInGroup,
       PurgeShowsNoGroup
<1>3. CASE Message
  BY <1>t, <1>2, <1>3, Begins DEF Message
<1>4. CASE \E f \in Asking \cup Silent : Command(f)
  <2>1. PICK f \in Asking \cup Silent : Command(f)
    BY <1>4
  <2>2. /\ Flow(f[1], f[2], f[3]) \in FlowType /\ Flow(f[1], f[2], f[3]).at = "work"
        /\ Flow(f[1], f[2], f[3]).cmd \notin {"wipe", "purge"}
        /\ Flow(f[1], f[2], f[3]).cmd = f[1] /\ Flow(f[1], f[2], f[3]).on = f[2]
    BY CommandsTyped, FlowTyped, Begins
  <2>3. f[1] \in {"open", "leave"} => f[2] \in Group
    BY CommandsTyped
  <2> QED BY <1>2, <2>1, <2>2, <2>3 DEF Command
<1>5. CASE GoHome
  <2>1. /\ GoTo(NoOne, NoOne) /\ UNCHANGED <<asking, savedPrompt, flow, store>> /\ timer' = Touched
        /\ previousView' \in Uid \cup Group \cup {Home, NoOne}
    BY <1>5, ViewTyped DEF GoHome, Remember, RestOK, FlowOK
  <2>2. activeGroup' = NoOne
    BY <2>1 DEF GoTo, Focus
  <2> QED BY <1>0, <2>1, <2>2, GoKeeps, TouchKeeps DEF RestOK, FlowOK, FocusOK, PurgeShowsNoGroup
<1>6. CASE \E contact \in Uid \X Alias, inline \in BOOLEAN : Chat(contact, inline)
  <2>1. PICK contact \in Uid \X Alias, inline \in BOOLEAN : Chat(contact, inline)
    BY <1>6
  <2>2. /\ GoTo(contact, NoOne) /\ UNCHANGED <<asking, savedPrompt, store>>
        /\ previousView' \in Uid \cup Group \cup {Home, NoOne}
    BY <2>1, ViewTyped DEF Chat, Remember, RestOK, FlowOK
  <2>3. activeGroup' = NoOne
    BY <2>2 DEF GoTo, Focus
  <2>4. /\ flow' \in FlowType /\ timer' \in {"off", "armed"}
        /\ (flow'.at = "idle") <=> (flow' = Idle)
        /\ PromptAnswered' /\ IdleIsTimed'
    <3>1. CASE inline
      BY <1>0, <1>t, <2>1, <2>2, <3>1, RunKeeps, Begins DEF Chat
    <3>2. CASE ~inline
      BY <2>1, <2>2, <3>2, TouchKeeps DEF Chat
    <3> QED BY <3>1, <3>2
  <2>5. flow' = flow \/ flow'.cmd = "plain"
    BY <2>1, Begins DEF Chat, Run
  <2> QED BY <1>0, <2>2, <2>3, <2>4, <2>5, GoKeeps DEF RestOK, FlowOK, FocusOK, PurgeShowsNoGroup
<1>7. CASE Lock
  <2>1. lockLocal /\ UNCHANGED <<prompt, asking, savedPrompt, active, flow>>
    BY <1>7 DEF Lock, SamePrompt
  <2>2. /\ store' \in {"none", "locked"} /\ timer' = "off"
        /\ activeGroup' = NoOne /\ previousView' = NoOne /\ stranded' = FALSE
    BY <2>1 DEF lockLocal, RestOK, FlowOK
  <2>3. PromptNamesFocus' /\ PromptAnswered'
    BY <2>1, <2>2 DEF RestOK, FlowOK, FocusOK, PromptNamesFocus, LineGoesWherePromptSays, ShownPrompt,
         OneFocus, StrandedInGroup, PromptAnswered
  <2> QED BY <1>0, <2>1, <2>2, <2>3 DEF RestOK, FlowOK, FocusOK, OneFocus, StrandedInGroup,
       PurgeShowsNoGroup, IdleIsTimed
<1>8. CASE \E late \in BOOLEAN : Wipe(late)
  <2>1. PICK late \in BOOLEAN : Wipe(late)
    BY <1>8
  <2>2. SamePrompt
    BY <2>1 DEF Wipe
  <2>3. CASE flow # Idle
    <3>1. Run(Idle) /\ SameFocus /\ UNCHANGED store /\ flow' = flow
      BY <2>1, <2>3 DEF Wipe, Run
    <3> QED BY <1>0, <2>2, <2>3, <3>1, RunKeeps DEF SamePrompt, SameFocus, RestOK, FlowOK, FocusOK,
         PromptNamesFocus, LineGoesWherePromptSays, ShownPrompt, OneFocus, StrandedInGroup,
         PurgeShowsNoGroup
  <2>4. CASE flow = Idle /\ (~wipeRequested \/ late)
    BY <1>t, <1>2, <2>1, <2>2, <2>4, Begins DEF Wipe
  <2>5. CASE flow = Idle /\ ~(~wipeRequested \/ late)
    <3>1. /\ flow' = Flow("wipe", NoOne, <<>>) /\ lockLocal
          /\ UNCHANGED <<prompt, asking, savedPrompt, active>>
      BY <2>1, <2>2, <2>5 DEF Wipe, SamePrompt
    <3>2. flow' \in FlowType /\ flow'.at = "work" /\ flow' # Idle /\ flow'.cmd = "wipe"
      BY <1>t, <3>1, Begins
    <3>3. /\ store' \in {"none", "locked"} /\ timer' = "off"
          /\ activeGroup' = NoOne /\ previousView' = NoOne /\ stranded' = FALSE
      BY <3>1 DEF lockLocal, RestOK, FlowOK
    <3>4. PromptNamesFocus' /\ PromptAnswered'
      BY <1>0, <3>1, <3>2, <3>3 DEF RestOK, FlowOK, FocusOK, PromptNamesFocus, LineGoesWherePromptSays,
           ShownPrompt, OneFocus, StrandedInGroup, PromptAnswered
    <3> QED BY <1>0, <3>1, <3>2, <3>3, <3>4 DEF RestOK, FlowOK, FocusOK, OneFocus, StrandedInGroup,
         PurgeShowsNoGroup, IdleIsTimed
  <2> QED BY <2>3, <2>4, <2>5
<1>9. CASE Return
  <2>1. Run(Flow("return", previousView, <<>>)) /\ UNCHANGED <<asking, savedPrompt, store>>
    BY <1>9 DEF Return
  <2>2. CASE (flow # Idle \/ previousView = NoOne) \/ previousView \in Group
    <3>1. UNCHANGED <<active, activeGroup, stranded, prompt>>
      BY <1>9, <2>2 DEF Return, SameFocus
    <3>2. previousView' \in Uid \cup Group \cup {Home, NoOne}
      BY <1>9, <2>2, ViewTyped DEF Return, SameFocus, RestOK, FlowOK
    <3>3. flow' = flow \/ flow'.cmd = "return"
      BY <2>1, Begins DEF Run
    <3>4. /\ flow' \in FlowType /\ timer' \in {"off", "armed"}
          /\ (flow'.at = "idle") <=> (flow' = Idle)
          /\ PromptAnswered' /\ IdleIsTimed'
      BY <1>0, <1>t, <2>1, Begins, RunKeeps
    <3> QED BY <1>0, <2>1, <3>1, <3>2, <3>3, <3>4 DEF RestOK, FlowOK, FocusOK,
         PromptNamesFocus, LineGoesWherePromptSays, ShownPrompt, OneFocus, StrandedInGroup,
         PurgeShowsNoGroup
  <2>3. CASE ~((flow # Idle \/ previousView = NoOne) \/ previousView \in Group)
    <3>1. /\ previousView' \in Uid \cup Group \cup {Home, NoOne}
          /\ GoTo(NoOne, NoOne) \/ \E name \in Alias : previousView \in Uid /\ GoTo(<<previousView, name>>, NoOne)
      BY <1>9, <2>3, ViewTyped DEF Return
    <3>2. PICK contact \in (Uid \X Alias) \cup {NoOne} : GoTo(contact, NoOne)
      BY <3>1
    <3>3. activeGroup' = NoOne
      BY <3>2 DEF GoTo, Focus
    <3>4. /\ flow' \in FlowType /\ timer' \in {"off", "armed"}
          /\ (flow'.at = "idle") <=> (flow' = Idle)
          /\ PromptAnswered' /\ IdleIsTimed'
      BY <1>0, <1>t, <2>1, Begins, RunKeeps
    <3>5. flow' = flow \/ flow'.cmd = "return"
      BY <2>1, Begins DEF Run
    <3> QED BY <1>0, <2>1, <3>1, <3>2, <3>3, <3>4, <3>5, GoKeeps DEF RestOK, FlowOK, FocusOK, PurgeShowsNoGroup
  <2> QED BY <2>2, <2>3
<1>10. CASE \E f \in AskingAtOnce : CommandAsks(f)
  <2>1. PICK f \in AskingAtOnce : CommandAsks(f)
    BY <1>10
  <2> DEFINE g == Flow(f[1], NoOne, Tail(f[2]))
  <2>2. g \in FlowType /\ g.cmd \in {"removeAll", "plain"}
    <3>1. f[1] \in Commands /\ NoOne \in Targets /\ Tail(f[2]) \in Seq({"answer", "secret"})
      BY AskingTyped DEF Commands, Targets
    <3>2. g \in FlowType
      BY <3>1, FlowTyped
    <3>3. g.cmd = f[1]
      BY Begins
    <3> QED BY <3>2, <3>3, AskingTyped
  <2>3. flow' \in FlowType /\ flow'.at = "prompt" /\ flow' # Idle /\ flow'.cmd \in {"removeAll", "plain"}
    BY <2>1, <2>2, FlowMoves DEF CommandAsks
  <2>4. asking' = "answer" /\ savedPrompt' = prompt /\ prompt' = Question
    BY <2>1, AskingTyped DEF CommandAsks, Ask
  <2>5. SameFocus /\ timer' = "off" /\ UNCHANGED store
    BY <2>1 DEF CommandAsks
  <2>6. savedPrompt' \in Alias \cup Group \cup {Home}
    BY <1>0, <2>4 DEF RestOK, FlowOK
  <2> HIDE DEF g
  <2> QED BY <1>0, <2>3, <2>4, <2>5, <2>6 DEF SameFocus, RestOK, FlowOK, FocusOK,
       PromptNamesFocus, LineGoesWherePromptSays, ShownPrompt, OneFocus, StrandedInGroup,
       PurgeShowsNoGroup, PromptAnswered, IdleIsTimed
<1> QED BY <1>1, <1>3, <1>4, <1>5, <1>6, <1>7, <1>8, <1>9, <1>10 DEF HandleLine

(* A step of the command in flight.  It is at work, so no prompt is pending
   and the prompt it sets is the one shown. *)

LEMMA WorkShown ==
  ASSUME RestOK, flow.at \in {"work", "end"}
  PROVE  asking = "no"
BY DEF RestOK, PromptAnswered

LEMMA DoneKeeps ==
  ASSUME RestOK, flow.at = "work", Done, UNCHANGED asking
  PROVE  /\ flow' \in FlowType /\ flow'.at = "end" /\ flow' # Idle /\ flow'.cmd = flow.cmd
         /\ flow'.on = flow.on /\ PromptAnswered' /\ IdleIsTimed'
<1>1. /\ flow' \in FlowType /\ flow'.at = "end" /\ flow' # Idle
      /\ flow'.cmd = flow.cmd /\ flow'.on = flow.on
  BY FlowMoves DEF Done, RestOK, FlowOK
<1> QED BY <1>1, WorkShown DEF PromptAnswered, IdleIsTimed

LEMMA FlowKeeps ==
  ASSUME RestOK, FlowStep
  PROVE  RestOK'
<1> USE DEF SameFocus
<1>1. CASE AskNext
  <2>1. /\ flow' \in FlowType /\ flow'.at = "prompt" /\ flow' # Idle /\ flow'.cmd = flow.cmd
        /\ flow'.on = flow.on /\ asking' # "no"
    BY <1>1, FlowAsks DEF AskNext, ReadInput, Ask, RestOK, FlowOK, Idle
  <2>2. /\ asking = "no" /\ savedPrompt' = prompt /\ prompt' = Question
        /\ UNCHANGED <<store, timer, active, activeGroup, previousView, wipeRequested, stranded>>
    BY <1>1, WorkShown DEF AskNext, ReadInput, Ask
  <2>3. savedPrompt' \in Alias \cup Group \cup {Home}
    BY <2>2 DEF RestOK, FlowOK
  <2> QED BY <2>1, <2>2, <2>3 DEF RestOK, FlowOK, FocusOK, PromptNamesFocus, LineGoesWherePromptSays,
       ShownPrompt, OneFocus, StrandedInGroup, PurgeShowsNoGroup, PromptAnswered, IdleIsTimed
<1>2. CASE Finish
  <2>1. flow' = Idle /\ Idle \in FlowType /\ Idle.at = "idle" /\ Idle.cmd = "none"
    BY <1>2, FlowTyped, Questions DEF Finish, Commands, Targets, Idle, FlowType
  <2>2. /\ asking = "no" /\ timer' = Touched
        /\ UNCHANGED <<prompt, asking, savedPrompt, store, active, activeGroup, previousView,
                       wipeRequested, stranded>>
    BY <1>2, WorkShown DEF Finish, shellVars
  <2> QED BY <2>1, <2>2 DEF Touched, RestOK, FlowOK, FocusOK, PromptNamesFocus,
       LineGoesWherePromptSays, ShownPrompt, OneFocus, StrandedInGroup, PurgeShowsNoGroup,
       PromptAnswered, IdleIsTimed
<1>3. CASE Register \/ Unlock
  <2>1. /\ flow.at = "work" /\ Done /\ store' = "unlocked"
        /\ UNCHANGED <<prompt, asking, savedPrompt, timer, active, activeGroup, previousView,
                       wipeRequested, stranded>>
    BY <1>3 DEF Register, Unlock, Acting, shellVars
  <2> QED BY <2>1, DoneKeeps DEF RestOK, FlowOK, FocusOK, PromptNamesFocus,
       LineGoesWherePromptSays, ShownPrompt, OneFocus, StrandedInGroup, PurgeShowsNoGroup
<1>4. CASE Recover
  <2>1. PICK next \in {"register", "rebuild"} :
          /\ flow.at = "work" /\ flow' = Flow(next, NoOne, <<>>) /\ GoTo(NoOne, NoOne)
          /\ store' \in {"none", "locked"} /\ timer' = "off" /\ previousView' = NoOne
          /\ UNCHANGED <<asking, savedPrompt, wipeRequested>>
    BY <1>4 DEF Recover, Acting, SetPrompt
  <2>2. flow' \in FlowType /\ flow' # Idle /\ flow'.at = "work" /\ flow'.cmd = next
    <3>1. Flow(next, NoOne, <<>>) \in FlowType
      BY FlowTyped, Questions DEF Commands, Targets
    <3> QED BY <2>1, <3>1, Begins
  <2> QED BY <2>1, <2>2, WorkShown, GoKeeps DEF RestOK, FlowOK, FocusOK, PurgeShowsNoGroup,
       PromptAnswered, IdleIsTimed
<1>15. CASE WipeForRecover
  <2>1. /\ flow.at = "work" /\ flow' = Flow("register", NoOne, <<>>) /\ store' = "none"
        /\ UNCHANGED <<prompt, asking, savedPrompt, timer, active, activeGroup, previousView,
                       wipeRequested, stranded>>
    BY <1>15 DEF WipeForRecover, Acting, shellVars
  <2>2. flow' \in FlowType /\ flow' # Idle /\ flow'.at = "work" /\ flow'.cmd = "register"
    <3>1. Flow("register", NoOne, <<>>) \in FlowType
      BY FlowTyped, Questions DEF Commands, Targets
    <3> QED BY <2>1, <3>1, Begins
  <2> QED BY <2>1, <2>2, WorkShown DEF RestOK, FlowOK, FocusOK, PromptNamesFocus,
       LineGoesWherePromptSays, ShownPrompt, OneFocus, StrandedInGroup, PurgeShowsNoGroup,
       PromptAnswered, IdleIsTimed
<1>5. CASE Duress
  <2>1. /\ flow.at = "work" /\ flow' = Flow("purge", NoOne, <<>>) /\ lockLocal
        /\ UNCHANGED <<prompt, asking, savedPrompt, active, wipeRequested>>
    BY <1>5 DEF Duress, Acting, shellVars
  <2>2. flow' \in FlowType /\ flow' # Idle /\ flow'.at = "work" /\ flow'.cmd = "purge"
    <3>1. Flow("purge", NoOne, <<>>) \in FlowType
      BY FlowTyped, Questions DEF Commands, Targets
    <3> QED BY <2>1, <3>1, Begins
  <2> QED BY <2>1, <2>2, WorkShown, LockKeeps DEF RestOK, FlowOK, FocusOK, PromptAnswered
<1>6. CASE Logout
  <2>1. /\ flow.at = "work" /\ Done /\ lockLocal
        /\ UNCHANGED <<prompt, asking, savedPrompt, active, wipeRequested>>
    BY <1>6 DEF Logout, Acting, shellVars
  <2> QED BY <2>1, DoneKeeps, LockKeeps DEF RestOK, FlowOK, FocusOK
<1>7. ASSUME NEW cmd \in {"wipe", "purge"}, Purge(cmd)
      PROVE  RestOK'
  <2>1. /\ flow.at = "work" /\ flow.cmd = cmd /\ Done /\ prompt' = Home /\ active' = NoOne
        /\ store' \in {"none", store} /\ previousView' \in {previousView, NoOne}
        /\ wipeRequested' \in {wipeRequested, FALSE}
        /\ UNCHANGED <<asking, savedPrompt, timer, activeGroup, stranded>>
    BY <1>7 DEF Purge, Acting, SetPrompt
  <2>2. activeGroup = NoOne
    BY <1>7, <2>1 DEF RestOK, FocusOK, PurgeShowsNoGroup
  <2> QED BY <2>1, <2>2, DoneKeeps DEF RestOK, FlowOK, FocusOK, PromptNamesFocus,
       LineGoesWherePromptSays, OneFocus, StrandedInGroup, PurgeShowsNoGroup
<1>8. ASSUME flow.at = "work", Done, GoHomeAfterRemoval, UNCHANGED <<store, timer, wipeRequested>>
      PROVE  RestOK'
  <2>1. /\ prompt' = Home /\ active' = NoOne /\ previousView' = NoOne
        /\ stranded' = (activeGroup # NoOne)
        /\ UNCHANGED <<asking, savedPrompt, activeGroup>>
    BY <1>8 DEF GoHomeAfterRemoval, SetPrompt
  <2> QED BY <1>8, <2>1, DoneKeeps DEF RestOK, FlowOK, FocusOK, PromptNamesFocus,
       LineGoesWherePromptSays, OneFocus, StrandedInGroup, PurgeShowsNoGroup
<1>9. CASE Remove
  <2>1. flow.at = "work" /\ Done /\ UNCHANGED <<store, timer, wipeRequested>>
    BY <1>9 DEF Remove, Acting
  <2>2. CASE ~GoHomeAfterRemoval
    <3>1. /\ UNCHANGED <<prompt, asking, savedPrompt, active, activeGroup, stranded>>
          /\ previousView' \in {previousView, NoOne}
      BY <1>9, <2>2 DEF Remove, shellVars
    <3> QED BY <2>1, <3>1, DoneKeeps DEF RestOK, FlowOK, FocusOK, PromptNamesFocus,
         LineGoesWherePromptSays, ShownPrompt, OneFocus, StrandedInGroup, PurgeShowsNoGroup
  <2> QED BY <1>8, <2>1, <2>2
<1>10. CASE RemoveAll
  BY <1>8, <1>10 DEF RemoveAll, Acting
<1>11. CASE Rename
  <2>1. PICK name \in Alias : active' = <<flow.on, name>> /\ prompt' = name
    BY <1>11 DEF Rename
  <2>2. /\ flow.at = "work" /\ Done /\ active # NoOne /\ active[1] = flow.on
        /\ UNCHANGED <<asking, savedPrompt, store, timer, activeGroup, previousView, wipeRequested, stranded>>
    BY <1>11 DEF Rename, Acting, SetPrompt
  <2>3. active' \in Uid \X Alias /\ active' # NoOne /\ active'[2] = name
    BY <2>1, <2>2, Distinct DEF RestOK, FlowOK
  <2>4. activeGroup = NoOne /\ stranded = FALSE
    BY <2>2 DEF RestOK, FlowOK, FocusOK, OneFocus, StrandedInGroup
  <2> QED BY <2>1, <2>2, <2>3, <2>4, DoneKeeps, WorkShown DEF RestOK, FlowOK, FocusOK, PromptNamesFocus,
       LineGoesWherePromptSays, ShownPrompt, OneFocus, StrandedInGroup, PurgeShowsNoGroup
<1>12. CASE Open
  <2>1. /\ flow.at = "work" /\ flow.cmd = "open" /\ Done /\ GoTo(NoOne, flow.on)
        /\ previousView' \in Uid \cup Group \cup {Home, NoOne}
        /\ UNCHANGED <<asking, savedPrompt, store, timer, wipeRequested>>
        /\ flow.on \in Group
    BY <1>12, ViewTyped DEF Open, Acting, Remember, SetPrompt, RestOK, FlowOK
  <2> QED BY <1>12, <2>1, DoneKeeps, WorkShown, GoKeeps DEF RestOK, FlowOK, FocusOK, PurgeShowsNoGroup
<1>13. CASE Leave
  <2>1. /\ flow.at = "work" /\ Done /\ activeGroup = flow.on /\ activeGroup' = NoOne
        /\ prompt' = Home /\ stranded' = FALSE
        /\ UNCHANGED <<asking, savedPrompt, store, timer, active, previousView, wipeRequested>>
        /\ flow.on \in Group
    BY <1>13 DEF Leave, Acting, SetPrompt, RestOK, FlowOK
  <2>2. active = NoOne
    BY <2>1, Distinct DEF RestOK, FocusOK, OneFocus
  <2> QED BY <2>1, <2>2, DoneKeeps DEF RestOK, FlowOK, FocusOK, PromptNamesFocus,
       LineGoesWherePromptSays, OneFocus, StrandedInGroup, PurgeShowsNoGroup
<1>14. CASE ReturnToGroup
  <2>1. /\ flow.at = "work" /\ flow.cmd = "return" /\ Done /\ previousView' \in {previousView, NoOne}
        /\ flow.on \in Group
        /\ GoTo(NoOne, flow.on) \/ GoTo(NoOne, NoOne)
        /\ UNCHANGED <<asking, savedPrompt, store, timer, wipeRequested>>
    BY <1>14 DEF ReturnToGroup, Acting, SetPrompt
  <2> QED BY <2>1, DoneKeeps, WorkShown, GoKeeps DEF RestOK, FlowOK, FocusOK, PurgeShowsNoGroup
<1> QED BY <1>1, <1>2, <1>3, <1>4, <1>5, <1>6, <1>7, <1>9, <1>10, <1>11, <1>12, <1>13, <1>14, <1>15 DEF FlowStep

LEMMA OthersKeep ==
  ASSUME RestOK, LineOK,
         \/ Key /\ UNCHANGED execVars
         \/ Answer \/ Cancel \/ AutoLock \/ LeftBehind \/ UNCHANGED vars
  PROVE  RestOK'
<1>1. ASSUME UNCHANGED execVars, SamePrompt
      PROVE  RestOK'
  BY <1>1 DEF execVars, SamePrompt, RestOK, FlowOK, FocusOK, PromptNamesFocus,
       LineGoesWherePromptSays, ShownPrompt, OneFocus, StrandedInGroup, PurgeShowsNoGroup,
       PromptAnswered, IdleIsTimed
<1>2. CASE (Key \/ AbandonLine) /\ UNCHANGED execVars
  <2>1. SamePrompt
    BY <1>2 DEF Key, Type, Erase, MoveCursor, Highlight, HistoryPrev, HistoryNext, Escape, AcceptRow,
         Complete, PickRow, AbandonLine, Fill
  <2> QED BY <1>1, <1>2, <2>1
<1>3. CASE UNCHANGED vars
  BY <1>1, <1>3 DEF vars, shellVars, execVars, SamePrompt
<1>4. ASSUME Settle, NEW next \in {"work", "end"},
             flow' = [flow EXCEPT !.at = IF @ = "prompt" THEN next ELSE @],
             UNCHANGED <<store, timer, active, activeGroup, previousView, wipeRequested, stranded>>
      PROVE  RestOK'
  <2>1. /\ asking # "no" /\ asking' = "no" /\ prompt' = savedPrompt /\ savedPrompt' = Home
    BY <1>4 DEF Settle
  <2>2. flow.at = "prompt"
    BY <2>1 DEF RestOK, PromptAnswered
  <2>3. flow' = [flow EXCEPT !.at = next]
    BY <1>4, <2>2
  <2>4. /\ flow' \in FlowType /\ flow'.at = next /\ flow' # Idle
        /\ flow'.cmd = flow.cmd /\ flow'.on = flow.on
    <3>1. flow \in FlowType /\ next \in {"work", "prompt", "end"}
      BY <1>4 DEF RestOK, FlowOK
    <3> QED BY <2>3, <3>1, FlowMoves
  <2> QED BY <1>4, <2>1, <2>4 DEF RestOK, FlowOK, FocusOK, PromptNamesFocus,
       LineGoesWherePromptSays, ShownPrompt, OneFocus, StrandedInGroup, PurgeShowsNoGroup,
       PromptAnswered, IdleIsTimed
<1>5. CASE Answer
  BY <1>4, <1>5 DEF Answer
<1>6. CASE Cancel
  BY <1>2, <1>4, <1>6 DEF Cancel
<1>7. CASE AutoLock
  <2>1. lockLocal /\ UNCHANGED <<prompt, asking, savedPrompt, flow, active, wipeRequested>>
    BY <1>7 DEF AutoLock, shellVars
  <2> QED BY <2>1, LockKeeps DEF RestOK, FlowOK, FocusOK, PromptAnswered
<1>8. CASE LeftBehind
  <2>1. /\ activeGroup # NoOne /\ activeGroup' = NoOne /\ prompt' = Home /\ stranded' = FALSE
        /\ UNCHANGED <<asking, savedPrompt, flow, store, timer, active, previousView, wipeRequested>>
    BY <1>8 DEF LeftBehind, SetPrompt
  <2>2. active = NoOne
    BY <2>1 DEF RestOK, FocusOK, OneFocus
  <2>3. FlowOK'
    BY <2>1 DEF RestOK, FlowOK
  <2>4. FocusOK'
    BY <2>1, <2>2 DEF RestOK, FlowOK, FocusOK, PromptNamesFocus, LineGoesWherePromptSays,
       ShownPrompt, OneFocus, StrandedInGroup, PurgeShowsNoGroup
  <2>5. PromptAnswered' /\ IdleIsTimed'
    BY <2>1 DEF RestOK, PromptAnswered, IdleIsTimed
  <2> QED BY <2>3, <2>4, <2>5 DEF RestOK
<1> QED BY <1>2, <1>3, <1>5, <1>6, <1>7, <1>8

-----------------------------------------------------------------------------
LEMMA InitHolds == Init => IInv
<1> SUFFICES ASSUME Init PROVE IInv
  OBVIOUS
<1>1. LineOK
  <2>1. <<>> \in Seq(Text) /\ Len(<<>>) = 0 /\ DOMAIN <<>> = {}
    OBVIOUS
  <2> QED BY <2>1, HistoryBound DEF Init, ShellInit, LineOK, ShellTypeOK, TextStaysPut, Text
<1>2. RestOK
  <2>1. Idle \in FlowType /\ Idle.at = "idle" /\ Idle.cmd = "none"
    BY FlowTyped, Questions DEF Commands, Targets, Idle, FlowType
  <2> QED BY <2>1 DEF Init, ShellInit, RestOK, FlowOK, FocusOK, PromptNamesFocus,
       LineGoesWherePromptSays, OneFocus, StrandedInGroup, PurgeShowsNoGroup,
       PromptAnswered, IdleIsTimed
<1> QED BY <1>1, <1>2, Parts

LEMMA StepHolds == IInv /\ [Next]_vars => IInv'
<1> SUFFICES ASSUME IInv, [Next]_vars PROVE IInv'
  OBVIOUS
<1>1. LineOK /\ RestOK
  BY Parts
<1>2. LineOK'
  BY <1>1, LineAlways DEF RestOK, FlowOK
<1>3. RestOK'
  BY <1>1, LineKeeps, FlowKeeps, OthersKeep DEF Next
<1>4. LineOK' /\ RestOK' => IInv'
  BY DEF IInv, LineOK, RestOK, FocusOK, FlowOK, TypeOK
<1> QED BY <1>2, <1>3, <1>4

(* The inductive invariant: what the line holds, who waits at the prompt, and
   which conversation the prompt names. *)
THEOREM FocusHolds == Spec => []IInv
BY InitHolds, StepHolds, PTL DEF Spec

(* Every reachable state of Terminal is well typed (shell.ts, index.ts). *)
THEOREM TerminalTyped == Spec => []TypeOK
<1>1. IInv => TypeOK
  BY DEF IInv
<1> QED BY <1>1, FocusHolds, PTL

(* What is typed at a prompt never reaches the line, the draft, the history or
   the dropdown, and nothing else is in it, for a history of any length and
   any number of prompts (readInput, submit, historyPrev, setBuffer, shell.ts). *)
THEOREM SecretsStayAtTheirPrompt == Spec => []TextStaysPut
<1>1. IInv => TextStaysPut
  BY DEF IInv
<1> QED BY <1>1, FocusHolds, PTL

(* A prompt is pending exactly while the command in flight waits at it
   (pending, shell.ts; run, index.ts). *)
THEOREM PromptAndCommandMeet == Spec => []PromptAnswered
<1>1. IInv => PromptAnswered
  BY DEF IInv
<1> QED BY <1>1, FocusHolds, PTL

(* For any number of contacts, names and groups, a typed line goes to the
   conversation its prompt names or nowhere, except after /remove all was run
   from a group (setPrompt, active, activeGroup, index.ts). *)
THEOREM LinesGoWherePromptsSay == Spec => []PromptNamesFocus
<1>1. IInv => PromptNamesFocus
  BY DEF IInv
<1> QED BY <1>1, FocusHolds, PTL

(* An unlocked store with nothing in flight has its idle timer running
   (run, touchAutoLock, index.ts). *)
THEOREM IdleStoreIsTimed == Spec => []IdleIsTimed
<1>1. IInv => IdleIsTimed
  BY DEF IInv
<1> QED BY <1>1, FocusHolds, PTL
=============================================================================
