------------------------------ MODULE AiAssist ------------------------------
(***************************************************************************)
(* The writing assistant: AIService, its dialogs over the compose page and *)
(* the API key.  Everything here runs on the Qt thread; the interleaving   *)
(* comes from the replies and from dialogs that are not modal.  The        *)
(* service tells every open dialog of every answer.  The AI server and     *)
(* the keychain are external.                                              *)
(***************************************************************************)
EXTENDS Naturals, FiniteSets

CONSTANTS Dialogs,      \* the dialogs that may be open at a time
          Bodies,       \* what the user writes
          Keys,         \* API keys
          Users,        \* a subset of BOOLEAN: does the user wait for an answer
          Faults,       \* a subset of {"network", "empty", "keychain"}
          MaxRequests,  \* bound: requests to the AI
          MaxEdits,     \* bound: drafts begun
          MaxFaults     \* bound: faults

ASSUME AiAssumption ==
  /\ Users \subseteq BOOLEAN /\ Faults \subseteq {"network", "empty", "keychain"}
  /\ "none" \notin Keys /\ "none" \notin Bodies
  /\ {MaxRequests, MaxEdits, MaxFaults} \subseteq Nat

VARIABLES waits,    \* the user closes and opens dialogs only when nothing is under way
          draft,    \* the text of the compose page
          dialog,   \* the dialogs
          asked,    \* requests without an answer
          key,      \* m_apiKey
          stored,   \* the key in secure storage
          legacy,   \* the key in QSettings, as earlier versions left it
          up,       \* the program runs
          sent, edits, faults

keys == <<key, stored, legacy>>
vars == <<waits, draft, dialog, asked, keys, up, sent, edits, faults>>

\* A text as the user wrote it, or as the AI rewrote it.
Typed(b)    == [body |-> b, ai |-> FALSE]
NoText      == Typed("none")
Rewritten(t) == [t EXCEPT !.ai = TRUE]
Answers(t)  == {t, Rewritten(t)}

Closed == [page |-> "closed", original |-> NoText, improved |-> NoText, generate |-> FALSE, apply |-> FALSE]

Open(d)  == dialog[d].page # "closed"
Fault(f) == f \in Faults /\ faults < MaxFaults /\ faults' = faults + 1

Init == /\ waits \in Users
        /\ draft = NoText /\ dialog = [d \in Dialogs |-> Closed] /\ asked = {}
        /\ key = "none" /\ stored \in Keys \cup {"none"} /\ legacy \in Keys \cup {"none"}
        /\ up = FALSE /\ sent = 0 /\ edits = 0 /\ faults = 0
---------------------------------------------------------------------------
(* The key.                                                                *)

\* The keychain logs its errors: a key that cannot be stored is not stored.
Store(k) == \/ stored' = k /\ UNCHANGED faults
            \/ Fault("keychain") /\ UNCHANGED stored

\* The legacy key moves to the secure storage, whether that takes it or not.
Migrates == legacy # "none" /\ key' = legacy /\ legacy' = "none"

\* The constructor loads the key and, where the storage holds none, migrates the
\* legacy key.  A keychain that fails looks empty: at the load, and the program
\* has no key; at the migration, and the legacy key goes over the stored one.
Start ==
  /\ ~up /\ up' = TRUE
  /\ \/ stored # "none" /\ key' = stored /\ UNCHANGED <<stored, legacy, faults>>
     \/ stored = "none" /\ legacy = "none" /\ key' = "none" /\ UNCHANGED <<stored, legacy, faults>>
     \/ stored = "none" /\ Store(legacy) /\ Migrates
     \/ stored # "none" /\ Fault("keychain") /\ key' = "none" /\ UNCHANGED <<stored, legacy>>
     \/ stored # "none" /\ Fault("keychain") /\ stored' \in {stored, legacy} /\ Migrates
  /\ UNCHANGED <<waits, draft, dialog, asked, sent, edits>>

\* The dialogs and the requests go with the process.
Quit == /\ up /\ up' = FALSE
        /\ dialog' = [d \in Dialogs |-> Closed] /\ asked' = {} /\ draft' = NoText /\ key' = "none"
        /\ UNCHANGED <<waits, stored, legacy, sent, edits, faults>>

\* setApiKey and clearApiKey, from the settings.
SetApiKey(k) == /\ up /\ key # k /\ key' = k /\ Store(k)
                /\ UNCHANGED <<waits, draft, dialog, asked, legacy, up, sent, edits>>
---------------------------------------------------------------------------
(* The compose page and the dialog.                                        *)

\* The user writes another text; one who waits has closed the dialog.
Edit(b) == /\ up /\ edits < MaxEdits /\ edits' = edits + 1
           /\ waits => \A d \in Dialogs : ~Open(d)
           /\ draft' = Typed(b)
           /\ UNCHANGED <<waits, dialog, asked, keys, up, sent, faults>>

\* Mutant: the dialog is not deleted when it is closed.
Reused(d, text) == [dialog[d] EXCEPT !.page = IF dialog[d].improved = NoText THEN "idle" ELSE "comparison",
                                     !.original = text, !.generate = TRUE, !.apply = dialog[d].improved # NoText]

\* setOriginalText and showIdle.
Fresh(d, text) == [Closed EXCEPT !.page = "idle", !.original = text, !.generate = TRUE]

\* onAIAssistButtonClicked.
Assist(d) == /\ up /\ ~Open(d) /\ draft # NoText /\ key # "none"
             /\ waits => asked = {} /\ \A e \in Dialogs : ~Open(e)
             /\ dialog' = [dialog EXCEPT ![d] = Fresh(d, draft)]
             /\ UNCHANGED <<waits, draft, asked, keys, up, sent, edits, faults>>

Loading(dlg)       == [dlg EXCEPT !.page = "loading", !.generate = FALSE, !.apply = FALSE]
ShowError(dlg)     == [dlg EXCEPT !.page = "error", !.generate = TRUE, !.apply = FALSE]

\* setImprovedText shows "no changes needed" where nothing has changed, and
\* showComparison, which follows, shows the comparison all the same.
Compare(dlg, text) == [dlg EXCEPT !.page = "comparison", !.improved = text, !.generate = TRUE, !.apply = TRUE]

\* grammarCheckCompleted and textImprovementCompleted reach every dialog.
TellAll(dlgs, told) == [d \in Dialogs |-> IF dlgs[d].page = "closed" THEN dlgs[d] ELSE told[d]]
TellError(dlgs)     == TellAll(dlgs, [d \in Dialogs |-> ShowError(dlgs[d])])
TellText(dlgs, text) == TellAll(dlgs, [d \in Dialogs |-> Compare(dlgs[d], text)])

\* The button loads, then sendRequest: without a key the answer is immediate.
Generate(d) ==
  /\ Open(d) /\ dialog[d].generate
  /\ LET now == [dialog EXCEPT ![d] = Loading(@)] IN
     \/ /\ key = "none" /\ dialog' = TellError(now) /\ UNCHANGED <<asked, sent>>
     \/ /\ key # "none" /\ sent < MaxRequests /\ sent' = sent + 1
        /\ asked' = asked \cup {[id |-> sent, by |-> d, text |-> dialog[d].original]}
        /\ dialog' = now
  /\ UNCHANGED <<waits, draft, keys, up, edits, faults>>

\* Mutant: an answer without text is dropped.
OnlyText(ok, text) == ok \/ text = NoText

\* Every outcome goes on to the callback.
CallsBack(ok, text) == TRUE

\* handleResponse: a network error, an answer that holds no text, or a text.
Finished(r, ok, text) ==
  /\ r \in asked /\ asked' = asked \ {r}
  /\ dialog' = IF ~CallsBack(ok, text) THEN dialog
               ELSE IF ok THEN TellText(dialog, text) ELSE TellError(dialog)
  /\ UNCHANGED <<waits, draft, keys, up, sent, edits>>

Finish == \E r \in asked :
  \/ \E text \in Answers(r.text) : Finished(r, TRUE, text) /\ UNCHANGED faults
  \/ Finished(r, FALSE, NoText) /\ Fault("network")
  \/ Finished(r, FALSE, r.text) /\ Fault("empty")

\* Apply Changes: the suggestion becomes the text of the compose page.
Apply(d) == /\ Open(d) /\ dialog[d].apply
            /\ draft' = dialog[d].improved
            /\ dialog' = [dialog EXCEPT ![d].page = "closed"]
            /\ UNCHANGED <<waits, asked, keys, up, sent, edits, faults>>

Cancel(d) == /\ Open(d)
             /\ dialog' = [dialog EXCEPT ![d].page = "closed"]
             /\ UNCHANGED <<waits, draft, asked, keys, up, sent, edits, faults>>

Next == \/ Start \/ Quit \/ \E k \in Keys \cup {"none"} : SetApiKey(k)
        \/ \E b \in Bodies : Edit(b)
        \/ \E d \in Dialogs : Assist(d) \/ Generate(d) \/ Apply(d) \/ Cancel(d)
        \/ Finish

\* A reply finishes, with an answer or an error.
Spec == Init /\ [][Next]_vars /\ WF_vars(Finish)
---------------------------------------------------------------------------
(* Properties.                                                             *)

\* What a dialog offers is a rewriting of the text it shows beside it.
Own(d) == dialog[d].page = "comparison" => dialog[d].improved \in Answers(dialog[d].original)

\* For a user who waits for the answer before closing the dialog and opening
\* another, the suggestion is one for the text it is shown beside.
SuggestionIsOfItsText == waits => \A d \in Dialogs : Own(d)

\* "Sets the improved text from AI": the same of a user who does not wait.
NoCrossing == \A d \in Dialogs : Own(d)

\* A dialog that is loading does not stay so: its request is answered, whatever
\* the answer, or the dialog is closed.
AskEnds == \A d \in Dialogs : (dialog[d].page = "loading") ~> (dialog[d].page # "loading")

\* "cannot trigger multiple concurrent AI requests by clicking again".
OneRequestEach == \A r, s \in asked : r.by = s.by /\ Open(r.by) => r = s

\* A key the program works with is still there when it starts again.
KeyIsKept == up /\ key # "none" => key \in {stored, legacy}
=============================================================================
