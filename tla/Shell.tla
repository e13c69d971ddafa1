-------------------------------- MODULE Shell --------------------------------
(***************************************************************************)
(* The line discipline of the terminal (shell.ts) with the dropdown it     *)
(* drives (chrome.ts): one input line, its history, and the prompts that   *)
(* commands put in its place.                                              *)
(*                                                                         *)
(* A text is the set of places its characters were typed at: "line" (the   *)
(* command line, or filled in from history or the dropdown), "answer" (a   *)
(* visible prompt), "secret" (a masked one).  The cursor is left out.      *)
(***************************************************************************)
EXTENDS Naturals, Sequences

CONSTANTS
  MaxHistory,   \* MAX_HISTORY
  Home,         \* the prompt of the home screen, "> "
  Question      \* the text of any prompt a command shows

ASSUME HistoryBound == MaxHistory \in Nat \ {0}

VARIABLES
  buffer,         \* the text on the input line
  history,        \* submitted lines, oldest first
  historyIndex,   \* the entry recalled, 0 on a fresh line (the code has -1)
  draft,          \* the line set aside while history is browsed
  prompt,         \* what stands before the input line
  asking,         \* pending: "no", or the kind of text asked for
  savedPrompt,    \* pending.savedPrompt; Home while nothing is pending
  dropdown        \* "closed", "open", "picked" (a row is highlighted),
                  \* "hushed" (closed by Esc until the input changes)

shellVars == <<buffer, history, historyIndex, draft, prompt, asking, savedPrompt, dropdown>>

Text == SUBSET {"line", "answer", "secret"}
TypedAt == IF asking = "no" THEN "line" ELSE asking

ShellInit ==
  /\ buffer = {} /\ history = <<>> /\ historyIndex = 0 /\ draft = {}
  /\ prompt = Home /\ asking = "no" /\ savedPrompt = Home
  /\ dropdown = "closed"

-----------------------------------------------------------------------------
(* Every redraw hands the line to the dropdown, as empty while a prompt is
   pending.  Which words it then offers depends on characters that are not
   modelled; the highlight is lost, and Esc holds until the input changes. *)
Redraw(edited) ==
  dropdown' \in
    IF asking' # "no" \/ buffer' = {} THEN {"closed"}
    ELSE IF dropdown = "hushed" /\ ~edited THEN {"hushed"}
    ELSE {"closed", "open"}

NavActive == asking = "no" /\ dropdown \in {"open", "picked"}

SamePrompt == UNCHANGED <<prompt, asking, savedPrompt>>

Fill(text) ==
  /\ buffer' = text /\ SamePrompt
  /\ Redraw(TRUE)

Type ==
  /\ Fill(buffer \cup {TypedAt})
  /\ UNCHANGED <<history, historyIndex, draft>>

(* Backspace, delete, kill line. *)
Erase ==
  /\ \E rest \in SUBSET buffer : Fill(rest)
  /\ UNCHANGED <<history, historyIndex, draft>>

(* Arrows, home, end; also /settings mask at a prompt. *)
MoveCursor ==
  /\ UNCHANGED <<buffer, history, historyIndex, draft>> /\ SamePrompt
  /\ Redraw(FALSE)

(* Up and down move the highlight while the dropdown is open. *)
Highlight ==
  /\ NavActive
  /\ dropdown' = "picked"
  /\ UNCHANGED <<buffer, history, historyIndex, draft>> /\ SamePrompt

HistoryPrev ==
  /\ ~NavActive /\ history # <<>> /\ asking = "no"
  /\ draft' = IF historyIndex = 0 THEN buffer ELSE draft
  /\ historyIndex' = IF historyIndex = 0 THEN Len(history)
                     ELSE IF historyIndex > 1 THEN historyIndex - 1 ELSE historyIndex
  /\ Fill(history[historyIndex'])
  /\ UNCHANGED history

HistoryNext ==
  /\ ~NavActive /\ historyIndex # 0 /\ asking = "no"
  /\ IF historyIndex < Len(history)
     THEN historyIndex' = historyIndex + 1 /\ Fill(history[historyIndex'])
     ELSE historyIndex' = 0 /\ Fill(draft)
  /\ UNCHANGED <<history, draft>>

Escape ==
  /\ NavActive
  /\ dropdown' = "hushed"
  /\ UNCHANGED <<buffer, history, historyIndex, draft>> /\ SamePrompt

(* Enter or Tab on a highlighted row: the row replaces the line. *)
AcceptRow ==
  /\ NavActive /\ dropdown = "picked"
  /\ Fill({"line"})
  /\ UNCHANGED <<history, historyIndex, draft>>

(* Tab without one: the completer extends the line. *)
Complete ==
  /\ asking = "no" /\ dropdown # "picked" /\ buffer # {}
  /\ Fill(buffer \cup {"line"})
  /\ UNCHANGED <<history, historyIndex, draft>>

(* A click on a row; setBuffer ignores it while a prompt is pending. *)
PickRow ==
  /\ dropdown \in {"open", "picked"}
  /\ buffer' = IF asking = "no" THEN {"line"} ELSE buffer
  /\ dropdown' = "closed"
  /\ UNCHANGED <<history, historyIndex, draft>> /\ SamePrompt

Key ==
  \/ Type \/ Erase \/ MoveCursor
  \/ Highlight \/ HistoryPrev \/ HistoryNext \/ Escape
  \/ AcceptRow \/ Complete \/ PickRow

-----------------------------------------------------------------------------
(* The ends of a line. *)
ClearLine ==
  /\ buffer' = {}
  /\ historyIndex' = 0
  /\ dropdown' = "closed"

\* Mutant: the prompt is over, but its text stays on the line.
MutSettle ==
  /\ asking # "no"
  /\ asking' = "no" /\ prompt' = savedPrompt /\ savedPrompt' = Home
  /\ UNCHANGED <<buffer, history, historyIndex, draft, dropdown>>

(* Enter or Ctrl+C at a prompt: the prompt is over and the old one is back.
   What was typed goes to the command that asked, and nowhere else. *)
Settle ==
  /\ asking # "no"
  /\ ClearLine
  /\ asking' = "no" /\ prompt' = savedPrompt /\ savedPrompt' = Home
  /\ UNCHANGED <<history, draft>>

(* Ctrl+C on the command line. *)
AbandonLine ==
  /\ asking = "no"
  /\ ClearLine
  /\ UNCHANGED <<history, draft>> /\ SamePrompt

Push(line) ==
  LET longer == Append(history, line)
  IN  IF Len(longer) > MaxHistory THEN Tail(longer) ELSE longer

(* Enter on the command line.  A blank line and a repetition of the last one
   are not kept.  What becomes of the prompt is up to the handler. *)
SubmitLine ==
  /\ asking = "no" /\ dropdown # "picked"
  /\ ClearLine
  /\ history' \in {history} \cup (IF buffer = {} THEN {} ELSE {Push(buffer)})
  /\ UNCHANGED draft

(* readInput, but for the line it clears. *)
Ask(kind) ==
  /\ asking' = kind /\ savedPrompt' = prompt /\ prompt' = Question

ReadInput(kind) ==
  /\ ClearLine
  /\ Ask(kind)
  /\ UNCHANGED <<history, draft>>

(* setPrompt, but for the prompt it sets. *)
SetPrompt ==
  /\ UNCHANGED <<buffer, history, historyIndex, draft, asking, savedPrompt>>
  /\ Redraw(FALSE)

-----------------------------------------------------------------------------
ShellTypeOK ==
  /\ buffer \in Text /\ draft \in Text /\ history \in Seq(Text)
  /\ Len(history) <= MaxHistory
  /\ historyIndex \in 0..Len(history)
  /\ asking \in {"no", "answer", "secret"}
  /\ asking = "no" => savedPrompt = Home
  /\ dropdown \in {"closed", "open", "picked", "hushed"}

(* What is typed at a prompt stays there, and nothing else gets into it: the
   line, the draft and the history that Enter, Up and the dropdown work with
   hold only what was typed on the line, and while a prompt is pending the
   line holds only what was typed at that prompt ("so secrets never leak to
   the suggestion path", "so answers never pollute either", "so a pick can
   never land in a passphrase", shell.ts). *)
TextStaysPut ==
  /\ buffer \subseteq {TypedAt}
  /\ draft \subseteq {"line"}
  /\ \A i \in DOMAIN history : history[i] \subseteq {"line"}
=============================================================================
