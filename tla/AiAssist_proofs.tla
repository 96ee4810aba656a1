-------------------------- MODULE AiAssist_proofs --------------------------
(***************************************************************************)
(* Proofs about AiAssist, for any dialogs, texts, keys, faults and bounds. *)
(***************************************************************************)
EXTENDS AiAssist, TLAPS

\* A user who waits has one dialog open at most, and every request without an
\* answer asks about the text of that dialog, so an answer cannot go astray.
OneAtATime ==
  waits => /\ \A d, e \in Dialogs : Open(d) /\ Open(e) => d = e
           /\ \A r \in asked, d \in Dialogs : Open(d) => r.text = dialog[d].original

Texts == [body : Bodies \cup {"none"}, ai : BOOLEAN]
DialogType == [page : {"closed", "idle", "loading", "error", "comparison"},
               original : Texts, improved : Texts, generate : BOOLEAN, apply : BOOLEAN]
TypesInv == /\ draft \in Texts /\ dialog \in [Dialogs -> DialogType]
            /\ \A r \in asked : r.text \in Texts

AiInv == TypesInv /\ OneAtATime /\ SuggestionIsOfItsText

\* What the user writes and what the AI makes of it are texts.
LEMMA TextTypes ==
  /\ NoText \in Texts /\ Closed \in DialogType
  /\ \A b \in Bodies : Typed(b) \in Texts
  /\ \A t \in Texts : Answers(t) \in SUBSET Texts
BY DEF NoText, Typed, Texts, Closed, DialogType, Answers, Rewritten

\* What the operators on a dialog make of its page and its texts.
LEMMA DialogOperators ==
  ASSUME NEW dlg \in DialogType, NEW text \in Texts
  PROVE  /\ Loading(dlg) \in DialogType /\ Loading(dlg).page = "loading"
         /\ Loading(dlg).original = dlg.original
         /\ ShowError(dlg) \in DialogType /\ ShowError(dlg).page = "error"
         /\ ShowError(dlg).original = dlg.original
         /\ Compare(dlg, text) \in DialogType /\ Compare(dlg, text).page = "comparison"
         /\ Compare(dlg, text).original = dlg.original /\ Compare(dlg, text).improved = text
BY DEF DialogType, Loading, ShowError, Compare

\* The suggestion a user who waits is shown is one for the text beside it,
\* whatever fails and however often requests are sent.
THEOREM SuggestionTheorem == Spec => []SuggestionIsOfItsText
<1>1. Init => AiInv
  BY TextTypes DEF Init, AiInv, TypesInv, OneAtATime, SuggestionIsOfItsText, Open, Own, Closed
<1>2. AiInv /\ [Next]_vars => AiInv'
  <2> SUFFICES ASSUME AiInv, [Next]_vars PROVE AiInv'
    OBVIOUS
  <2> USE DEF AiInv, OneAtATime, SuggestionIsOfItsText, Open, Own
  <2>1. CASE UNCHANGED vars
    BY <2>1 DEF vars, TypesInv, Answers, Rewritten
  <2>2. CASE Start \/ \E k \in Keys \cup {"none"} : SetApiKey(k)
    BY <2>2 DEF Start, SetApiKey, keys, TypesInv
  <2>3. CASE Quit
    BY <2>3, TextTypes DEF Quit, Closed, TypesInv
  <2>4. CASE \E b \in Bodies : Edit(b)
    BY <2>4, TextTypes DEF Edit, TypesInv
  <2>5. ASSUME NEW d \in Dialogs, Assist(d) PROVE AiInv'
    <3>1. Fresh(d, draft) \in DialogType /\ Fresh(d, draft).page = "idle" /\ Fresh(d, draft).original = draft
      BY TextTypes DEF Fresh, Closed, DialogType, TypesInv
    <3> QED  BY <2>5, <3>1 DEF Assist, TypesInv
  <2>6. ASSUME NEW d \in Dialogs, Generate(d) PROVE AiInv'
    <3> DEFINE now == [dialog EXCEPT ![d] = Loading(@)]
    <3>1. /\ now \in [Dialogs -> DialogType] /\ now[d].page = "loading"
          /\ \A e \in Dialogs : now[e].original = dialog[e].original
          /\ \A e \in Dialogs : e # d => now[e] = dialog[e]
      BY TextTypes, DialogOperators DEF TypesInv
    <3> HIDE DEF now
    <3>2. CASE key = "none" /\ dialog' = TellError(now) /\ UNCHANGED asked
      <4>1. dialog' \in [Dialogs -> DialogType]
        BY <3>1, <3>2, TextTypes, DialogOperators DEF TellError, TellAll
      <4>2. \A e \in Dialogs : /\ dialog'[e].original = dialog[e].original
                               /\ dialog'[e].page \in {"closed", "error"}
                               /\ dialog'[e].page # "closed" => Open(e)
        BY <2>6, <3>1, <3>2, TextTypes, DialogOperators DEF TellError, TellAll, Generate
      <4>3. UNCHANGED <<waits, draft>>
        BY <2>6 DEF Generate
      <4> QED  BY <3>2, <4>1, <4>2, <4>3 DEF TypesInv
    <3>3. CASE dialog' = now /\ asked' = asked \cup {[id |-> sent, by |-> d, text |-> dialog[d].original]}
      <4>1. \A r \in asked' : r \in asked \/ r.text = dialog[d].original
        BY <3>3
      <4>2. dialog[d].original \in Texts
        BY DEF TypesInv, DialogType
      <4> QED  BY <2>6, <3>1, <3>3, <4>1, <4>2 DEF Generate, TypesInv
    <3> QED  BY <2>6, <3>2, <3>3 DEF Generate, now
  <2>7. ASSUME NEW d \in Dialogs, Apply(d) \/ Cancel(d) PROVE AiInv'
    <3>1. /\ dialog' \in [Dialogs -> DialogType] /\ dialog'[d].page = "closed"
          /\ \A e \in Dialogs : e # d => dialog'[e] = dialog[e]
      BY <2>7 DEF Apply, Cancel, TypesInv, DialogType
    <3>2. draft' \in Texts /\ UNCHANGED <<asked, waits>>
      BY <2>7 DEF Apply, Cancel, TypesInv, DialogType
    <3> QED  BY <3>1, <3>2 DEF TypesInv
  <2>8. ASSUME NEW r \in asked, NEW ok \in BOOLEAN, NEW text \in Texts, Finished(r, ok, text),
               ok => text \in Answers(r.text)
        PROVE  AiInv'
    <3>1. /\ dialog' \in [Dialogs -> DialogType]
          /\ \A e \in Dialogs : dialog'[e].original = dialog[e].original
          /\ \A e \in Dialogs : dialog'[e].page # "closed" => Open(e)
      BY <2>8, DialogOperators DEF Finished, CallsBack, TellError, TellText, TellAll, TypesInv
    <3>2. \A e \in Dialogs : dialog'[e].page = "comparison" => ok /\ dialog'[e].improved = text
      <4>1. CASE ok
        <5>1. dialog' = TellText(dialog, text)
          BY <2>8, <4>1 DEF Finished, CallsBack
        <5>2. \A e \in Dialogs : dialog'[e].page = "comparison" => dialog'[e].improved = text
          BY <5>1, DialogOperators DEF TellText, TellAll, TypesInv
        <5> QED  BY <4>1, <5>2
      <4>2. CASE ~ok
        BY <2>8, <4>2, DialogOperators DEF Finished, CallsBack, TellError, TellAll, TypesInv
      <4> QED  BY <4>1, <4>2
    <3> QED  BY <2>8, <3>1, <3>2 DEF Finished, TypesInv
  <2>9. CASE Finish
    <3>1. \A r \in asked : Answers(r.text) \in SUBSET Texts /\ r.text \in Texts /\ NoText \in Texts
      BY TextTypes DEF TypesInv
    <3> QED  BY <2>8, <2>9, <3>1 DEF Finish
  <2> QED  BY <2>1, <2>2, <2>3, <2>4, <2>5, <2>6, <2>7, <2>9 DEF Next
<1>3. AiInv => SuggestionIsOfItsText
  BY DEF AiInv
<1> QED  BY <1>1, <1>2, <1>3, PTL DEF Spec
=============================================================================
