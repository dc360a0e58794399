------------------------------- MODULE ConvertForm -------------------------------
(***************************************************************************)
(* The dialog that converts a lead, convert-lead-dialog.tsx, and the form  *)
(* of a billing profile inside its accordion. The dialog keeps what was    *)
(* typed there (billingData); the form keeps its fields and loses them     *)
(* whenever the accordion or the dialog closes.                            *)
(***************************************************************************)
EXTENDS PanelTypes, Integers

CONSTANT Conversions   \* as many POSTs may be in flight

VARIABLES leadStatus,    \* the status of the lead in the database
          listed,        \* the status in the row of the page's list; None: the page is gone
          convertOpen,   \* the dialog is open
          accordion,     \* its accordion is open
          fields,        \* what the form shows, None while it is not mounted
          billingData,   \* what the dialog would send, or None
          billingErrors, \* the form's fields are marked with errors of the API
          converting,    \* isSaving
          conversions,   \* the POSTs in flight
          unseen         \* history: the form was unmounted after billingData was typed

convertVars == <<leadStatus, listed, convertOpen, accordion, fields, billingData, billingErrors,
                 converting, conversions, unseen>>

\* What the form's fields amount to: nothing, some of a profile, or one the API accepts.
Contents   == {"blank", "partial", "full"}
ASSUME ConvertAssumption == Conversions \in Nat /\ None \notin Contents
Conversion == [billing : Contents \cup {None}, live : BOOLEAN,
               answer : {Sent, Failed, "created", "invalid", "refused"}]

ConvertInit == /\ leadStatus = "qualified" /\ listed = "qualified"
               /\ convertOpen = FALSE /\ accordion = FALSE /\ fields = None
               /\ billingData = None /\ billingErrors = FALSE
               /\ converting = FALSE
               /\ conversions = [k \in 1..Conversions |-> None]
               /\ unseen = FALSE

-----------------------------------------------------------------------------
(* The dialog and its form.                                                *)

Blank == billingData' = None /\ billingErrors' = FALSE /\ unseen' = FALSE
\* The form is unmounted, and what the dialog keeps of it is on the screen no more.
Hidden == unseen' = (billingData # None)

OpenConvert == /\ listed = "qualified" /\ ~convertOpen
               /\ convertOpen' = TRUE
               /\ UNCHANGED <<leadStatus, listed, accordion, fields, billingData, billingErrors,
                              converting, conversions, unseen>>

\* The form is mounted with default values, whatever the dialog keeps.
ToggleAccordion == /\ convertOpen
                   /\ accordion' = ~accordion
                   /\ IF accordion THEN fields' = None /\ Hidden
                                   ELSE fields' = "blank" /\ UNCHANGED unseen
                   /\ UNCHANGED <<leadStatus, listed, convertOpen, billingData, billingErrors,
                                  converting, conversions>>

\* notifyChange: a field changes, and the dialog is told all of them.
Type(v) == /\ fields # None
           /\ fields' = v /\ billingData' = v
           /\ unseen' = FALSE
           /\ UNCHANGED <<leadStatus, listed, convertOpen, accordion, billingErrors, converting,
                          conversions>>

CloseConvert == convertOpen' = FALSE /\ accordion' = FALSE /\ fields' = None

\* Mutant: the profile is not reset with the other fields.
EscapeConvertKeeps == /\ convertOpen /\ CloseConvert
                      /\ billingErrors' = FALSE /\ unseen' = FALSE
                      /\ UNCHANGED <<leadStatus, listed, billingData, converting, conversions>>

\* Escape, or a click outside, is handleOpen(false): it resets.
EscapeConvert == /\ convertOpen /\ CloseConvert
                 /\ Blank
                 /\ UNCHANGED <<leadStatus, listed, converting, conversions>>

\* The Cancel button only closes.
CancelConvert == /\ convertOpen /\ ~converting /\ CloseConvert
                 /\ Hidden
                 /\ UNCHANGED <<leadStatus, listed, billingData, billingErrors, converting, conversions>>

SubmitConvert(k) ==
    /\ convertOpen /\ ~converting
    /\ conversions[k] = None
    /\ conversions' = [conversions EXCEPT ![k] =
                         [billing |-> billingData, live |-> TRUE, answer |-> Sent]]
    /\ converting' = TRUE /\ billingErrors' = FALSE
    /\ UNCHANGED <<leadStatus, listed, convertOpen, accordion, fields, billingData, unseen>>

\* The list is fetched again: its rows, and with them their closed dialogs, are mounted anew.
ListAgain == /\ listed # None /\ ~convertOpen
             /\ listed' = leadStatus
             /\ Blank /\ converting' = FALSE
             /\ conversions' = [k \in 1..Conversions |->
                                  IF conversions[k] = None THEN None
                                  ELSE [conversions[k] EXCEPT !.live = FALSE]]
             /\ UNCHANGED <<leadStatus, convertOpen, accordion, fields>>

-----------------------------------------------------------------------------
(* The API and its answers.                                                *)

\* Somebody else moves the lead on.
LeadMoves == /\ leadStatus = "qualified"
             /\ leadStatus' \in Lead!valid_transitions["qualified"]
             /\ UNCHANGED <<listed, convertOpen, accordion, fields, billingData, billingErrors,
                            converting, conversions, unseen>>

\* A profile that is not complete is a 422 before anything else; then the lead must be qualified.
Convert(k) ==
    /\ conversions[k] # None /\ conversions[k].answer = Sent
    /\ \E a \in CASE conversions[k].billing \in {"blank", "partial"} -> {"invalid", Failed}
                  [] conversions[k].billing \in {None, "full"} ->
                       IF leadStatus = "qualified" THEN {"created", Failed} ELSE {"refused", Failed} :
         conversions' = [conversions EXCEPT ![k].answer = a]
    /\ leadStatus' \in IF conversions'[k].answer = "created" THEN {"converted"}
                       ELSE IF leadStatus = "qualified" /\ conversions[k].billing \in {None, "full"}
                            THEN {"qualified", "converted"}   \* the answer was lost
                       ELSE {leadStatus}
    /\ UNCHANGED <<listed, convertOpen, accordion, fields, billingData, billingErrors, converting, unseen>>

\* On to the new client: the list's page is left for good.
Converted(k) == /\ conversions[k] # None /\ conversions[k].answer = "created"
                /\ conversions' = [j \in 1..Conversions |-> None]
                /\ listed' = None /\ CloseConvert /\ converting' = FALSE
                /\ Blank
                /\ UNCHANGED leadStatus

NotConverted(k) ==
    /\ conversions[k] # None /\ conversions[k].answer \in {Failed, "invalid", "refused"}
    /\ conversions' = [conversions EXCEPT ![k] = None]
    /\ converting' = IF conversions[k].live THEN FALSE ELSE converting
    /\ billingErrors' = IF conversions[k].live /\ conversions[k].answer = "invalid" THEN TRUE ELSE billingErrors
    /\ UNCHANGED <<leadStatus, listed, convertOpen, accordion, fields, billingData, unseen>>

ConvertNext == \/ OpenConvert \/ ToggleAccordion \/ EscapeConvert \/ CancelConvert
               \/ \E v \in Contents : Type(v)
               \/ ListAgain \/ LeadMoves
               \/ \E k \in 1..Conversions : \/ SubmitConvert(k) \/ Convert(k)
                                            \/ Converted(k) \/ NotConverted(k)

ConvertSpec == ConvertInit /\ [][ConvertNext]_convertVars

-----------------------------------------------------------------------------
ConvertTypeOK == /\ leadStatus \in {"qualified", "disqualified", "converted"}
                 /\ listed \in LeadStatus \cup {None}
                 /\ convertOpen \in BOOLEAN /\ accordion \in BOOLEAN /\ converting \in BOOLEAN
                 /\ fields \in Contents \cup {None} /\ billingData \in Contents \cup {None}
                 /\ billingErrors \in BOOLEAN /\ unseen \in BOOLEAN
                 /\ conversions \in [1..Conversions -> Conversion \cup {None}]

\* A conversion would send the billing profile that the form shows, or none when nothing was
\* typed (convert-lead-dialog.tsx:80-116, 254-287): though the dialog was closed while it was
\* saving, opened again, refused or marked with errors. Except that the accordion, or Cancel,
\* hides what was typed and the dialog does not forget it: until a field is touched again, a
\* conversion sends what nobody sees.
SentAsShown == convertOpen /\ ~unseen => \/ billingData = fields
                                         \/ billingData = None /\ fields = "blank"
=============================================================================
