---------------------------- MODULE FilterEditor ----------------------------
(***************************************************************************)
(* The process filter of ActopApp (src/actop/tui/app.py).  Keys come to    *)
(* the application's queue, which hands them on to the widget that has the *)
(* focus.  The filter's Input edits its text at once and tells of it by a  *)
(* message, which waits in its own queue behind keys already handed on and *)
(* then in the application's: what the handlers read of the Input is newer *)
(* than the event they handle.  A key the Input has no use for comes back. *)
(*                                                                         *)
(* Queues and focus belong to Textual and are modelled from their use.  A  *)
(* key that types is "edit"; which text it makes is chosen as it is typed. *)
(* Every action of the application that is not about the filter or the     *)
(* process table is left out.                                              *)
(***************************************************************************)
EXTENDS Naturals, Sequences

CONSTANTS
  Texts,            \* what may stand in the field, stripped
  Blank,            \* the empty text
  Edits,            \* pairs of texts one key apart
  Invalid,          \* the texts re.compile refuses
  ConfigPattern,    \* process_filter_pattern
  MaxKeys           \* bound: keys pressed

VARIABLES
  showProcesses,    \* self._show_processes
  display,          \* the Input's display
  value,            \* the Input's value
  focused,          \* the Input has the focus
  filter,           \* self._filter_regex, a pattern by its text
  before,           \* _filter_regex_before_edit and _filter_text_before_edit
  appQueue, inputQueue,
  keys,             \* keys pressed
  hasty,            \* ghost: what the last opening saved may be a text with an older filter
  cancelled         \* ghost: "no"; or an edit was cancelled and nothing typed since, and
                    \* "calm" or "hasty" says what the opening had saved

ghosts == <<hasty, cancelled>>
editorVars == <<display, value, focused, filter, before, appQueue, inputQueue, keys, ghosts>>

EditorInit ==
  /\ display = FALSE /\ value = Blank /\ focused = FALSE
  /\ filter = ConfigPattern
  /\ before = [filter |-> ConfigPattern, text |-> Blank]
  /\ appQueue = <<>> /\ inputQueue = <<>>
  /\ keys = 0
  /\ hasty = FALSE /\ cancelled = "no"

\* The filter a text that compiles asks for: the configured one when there is none.
Asked(text) == IF text = Blank THEN ConfigPattern ELSE text

\* A text that does not compile leaves the filter in place.
Compiled(text) == IF text \in Invalid THEN filter ELSE Asked(text)

Key(k)       == [kind |-> k]
Returned(k)  == [kind |-> "returned", key |-> k]
Changed(v)   == [kind |-> "changed", text |-> v]
Submitted(v) == [kind |-> "submitted", text |-> v]

-----------------------------------------------------------------------------
(* The application.                                                        *)

\* Keys may come faster than they are handled.
Press ==
  /\ keys < MaxKeys
  /\ keys' = keys + 1
  /\ \E k \in {"edit", "enter", "escape", "tab", "/", "p"} :
       appQueue' = Append(appQueue, Key(k))
  /\ UNCHANGED <<showProcesses, display, value, focused, filter, before, inputQueue, ghosts>>

\* A key while the field has the focus.
Forward ==
  /\ appQueue # <<>> /\ Head(appQueue).kind \in {"edit", "enter", "escape", "tab", "/", "p"}
  /\ focused
  /\ appQueue' = Tail(appQueue)
  /\ inputQueue' = Append(inputQueue, Head(appQueue))
  /\ UNCHANGED <<showProcesses, display, value, focused, filter, before, keys, ghosts>>

\* A key that is for the application: the field is without focus, or gave it back.
AppKey(k) ==
  /\ appQueue # <<>>
  /\ \/ Head(appQueue) = Key(k) /\ ~focused
     \/ Head(appQueue) = Returned(k)
  /\ appQueue' = Tail(appQueue)
  /\ UNCHANGED keys

\* _close_filter_input
Close == display' = FALSE /\ focused' = FALSE

\* A message of the Input's waits: the filter has still to follow the text.
Telling(q) == \E i \in 1..Len(q) : q[i].kind \in {"changed", "submitted"}

action_toggle_filter ==
  /\ AppKey("/")
  /\ \/ ~showProcesses /\ UNCHANGED <<display, focused, before, hasty>>
     \/ showProcesses /\ display /\ Close /\ UNCHANGED <<before, hasty>>
     \/ /\ showProcesses /\ ~display
        /\ before' = [filter |-> filter, text |-> value]
        /\ hasty' = (Telling(appQueue) \/ Telling(inputQueue) \/ cancelled = "hasty")
        /\ display' = TRUE /\ focused' = TRUE
  /\ UNCHANGED <<showProcesses, value, filter, inputQueue, cancelled>>

\* Mutant: only the filter is put back, the text stays.
CancelFilterOnly ==
  /\ AppKey("escape") /\ display
  /\ filter' = before.filter
  /\ Close
  /\ cancelled' = IF hasty THEN "hasty" ELSE "calm"
  /\ UNCHANGED <<showProcesses, value, before, inputQueue, hasty>>

action_cancel_filter ==
  /\ AppKey("escape")
  /\ \/ ~display /\ UNCHANGED <<value, filter, inputQueue, display, focused, cancelled>>
     \/ /\ display
        /\ value' = before.text
        /\ inputQueue' = IF value # before.text THEN Append(inputQueue, Changed(before.text))
                         ELSE inputQueue
        /\ filter' = before.filter
        /\ Close
        /\ cancelled' = IF hasty THEN "hasty" ELSE "calm"
  /\ UNCHANGED <<showProcesses, before, hasty>>

action_toggle_processes ==
  /\ AppKey("p")
  /\ showProcesses' = ~showProcesses
  /\ focused' = FALSE
  /\ UNCHANGED <<display, value, filter, before, inputQueue, ghosts>>

\* The focus goes round; a field that is not displayed is no part of it.
FocusNext ==
  /\ AppKey("tab")
  /\ focused' = (display /\ ~focused)
  /\ UNCHANGED <<showProcesses, display, value, filter, before, inputQueue, ghosts>>

\* Keys the application has no filter action for.
OtherKey ==
  /\ AppKey("edit") \/ AppKey("enter")
  /\ UNCHANGED <<showProcesses, display, value, focused, filter, before, inputQueue, ghosts>>

on_input_submitted ==
  /\ appQueue # <<>> /\ Head(appQueue).kind = "submitted"
  /\ filter' = Compiled(Head(appQueue).text)
  /\ Close
  /\ appQueue' = Tail(appQueue)
  /\ UNCHANGED <<showProcesses, value, before, inputQueue, keys, ghosts>>

on_input_changed ==
  /\ appQueue # <<>> /\ Head(appQueue).kind = "changed"
  /\ filter' = Compiled(Head(appQueue).text)
  /\ appQueue' = Tail(appQueue)
  /\ UNCHANGED <<showProcesses, display, value, focused, before, inputQueue, keys, ghosts>>

-----------------------------------------------------------------------------
(* The Input.                                                              *)

\* A key that types; "/" and "p" are letters like others here.
InputTypes ==
  /\ inputQueue # <<>> /\ Head(inputQueue).kind \in {"edit", "/", "p"}
  /\ \E w \in Texts :
       /\ <<value, w>> \in Edits
       /\ value' = w
       /\ inputQueue' = Append(Tail(inputQueue), Changed(w))
  /\ cancelled' = "no"
  /\ UNCHANGED <<showProcesses, display, focused, filter, before, appQueue, keys, hasty>>

InputSubmits ==
  /\ inputQueue # <<>> /\ Head(inputQueue) = Key("enter")
  /\ inputQueue' = Append(Tail(inputQueue), Submitted(value))
  /\ cancelled' = "no"
  /\ UNCHANGED <<showProcesses, display, value, focused, filter, before, appQueue, keys, hasty>>

\* What is not for the Input, and what it has said, goes up to the application.
Bubble ==
  /\ inputQueue # <<>> /\ Head(inputQueue).kind \in {"escape", "tab", "changed", "submitted"}
  /\ LET m == Head(inputQueue)
     IN  appQueue' = Append(appQueue,
           IF m.kind \in {"escape", "tab"} THEN Returned(m.kind) ELSE m)
  /\ inputQueue' = Tail(inputQueue)
  /\ UNCHANGED <<showProcesses, display, value, focused, filter, before, keys, ghosts>>

EditorNext ==
  \/ Press \/ Forward \/ InputTypes \/ InputSubmits \/ Bubble
  \/ action_toggle_filter \/ action_cancel_filter \/ action_toggle_processes
  \/ FocusNext \/ OtherKey
  \/ on_input_submitted \/ on_input_changed

EditorSpec ==
  EditorInit /\ showProcesses \in BOOLEAN /\ [][EditorNext]_<<showProcesses, editorVars>>

-----------------------------------------------------------------------------
(* What must hold.                                                         *)

Quiet == appQueue = <<>> /\ inputQueue = <<>>

\* Once the keys are handled, however fast they came, the pollers filter by the text of
\* the field, after a cancelled edit too (lines 543-580; poll_metrics reads the filter at
\* line 392).  Two cases are left out: a text that does not compile, and an edit taken
\* back in a field that was opened while a message of the Input's waited: what was saved
\* then is a text with the filter of an older one, and a text that is put back unchanged
\* makes no Changed event, whatever lines 550-552 say.
FilterAgrees ==
  Quiet /\ value \notin Invalid /\ cancelled # "hasty" => filter = Asked(value)

\* Once a cancelled edit is over, the live-applied filter is the one active before the
\* field was opened (lines 549-554), here with nothing waiting as it was opened.
CancelRestores ==
  Quiet /\ cancelled = "calm" /\ ~hasty /\ ~display => filter = before.filter
=============================================================================
