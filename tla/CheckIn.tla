------------------------------ MODULE CheckIn -------------------------------
(***************************************************************************)
(* The check-in desk of an event: a camera that reads QR codes             *)
(* (html5-qrcode, external: started, paused and resumed), a field for the  *)
(* code, and one call at a time, guarded by busyRef.  The QR code of a     *)
(* ticket (TicketQrCode) holds the address of this page with the ticket's  *)
(* code as a parameter; opened as a link, the page starts with that code   *)
(* in its field.  Tokens, faults and clicks are those of ListPages.        *)
(***************************************************************************)
EXTENDS ListPages

VARIABLE desk
\* scanner: "off", "failed" (no camera), "scanning" or "paused"; field: the code
\* typed; calls: the texts that are sent; result: what the page says of one; blank,
\* a history: whether the text that paused the scanner last was blank.

\* A text is what a code or a QR code reads: a ticket's code, or an address.
Text(form, id) == [form |-> form, id |-> id]
Blankness == Text("blank", 0)
Codes == {Text("code", id) : id \in 1 .. NumRows}
\* TicketQrCode: the address of the page, not the bare code.
QrOf(id) == Text("url", id)
\* What a camera may read: the QR code of a ticket, or any other one, whose text may
\* happen to be a code, or blank.
QrTexts == {QrOf(id) : id \in 1 .. NumRows} \cup Codes \cup {Blankness}

NoResult == [kind |-> "none", text |-> Blankness]
DeskClosed == [scanner |-> "off", field |-> Blankness, calls |-> {}, busy |-> FALSE,
               result |-> NoResult, blank |-> FALSE]

DeskInit ==
    /\ page = "desk" /\ token = 0 /\ gen = 0
    /\ rows = [id \in 1 .. NumRows |-> "confirmed"]
    /\ ui = [copy |-> rows, loading |-> FALSE, busy |-> 0, error |-> FALSE, form |-> FALSE,
             axes |-> FALSE, done |-> FALSE, exporting |-> FALSE, typed |-> "none",
             shown |-> "none"]
    /\ jobs = [i \in Slots |-> NoJob]
    /\ clicks = 0 /\ faults = 0 /\ hist = NoHistory
    /\ desk \in {[DeskClosed EXCEPT !.field = text] : text \in Codes \cup {Blankness}}

Desk(d) == desk' = d /\ UNCHANGED <<page, rows, ui, jobs, hist>>

\* The effect on the token: a new scanner is started, an old one is stopped; the
\* camera may not be available.
OpenDesk ==
    /\ gen < MaxGen /\ gen' = gen + 1 /\ token' = gen'
    /\ \E scanner \in {"scanning", "failed"} : Desk([desk EXCEPT !.scanner = scanner])
    /\ UNCHANGED <<clicks, faults>>

CloseDesk ==
    /\ token # 0 /\ token' = 0
    /\ Desk([desk EXCEPT !.scanner = "off"])
    /\ UNCHANGED <<gen, clicks, faults>>

\* A blank text, and a text read while another one is checked, are dropped.
submitCode(d, text) ==
    IF text = Blankness \/ token = 0 \/ d.busy THEN d
    ELSE [d EXCEPT !.busy = TRUE, !.calls = @ \cup {[text |-> text, res |-> "sent"]}]

\* The camera reads a QR code: pause, whatever it says, then submit.
Decode(text) ==
    /\ desk.scanner = "scanning" /\ clicks < MaxClicks
    /\ clicks' = clicks + 1
    /\ Desk(submitCode([desk EXCEPT !.scanner = "paused", !.blank = (text = Blankness)],
                       text))
    /\ UNCHANGED <<token, gen, faults>>

TypeTicketCode(text) ==
    /\ token # 0 /\ text # desk.field
    /\ Desk([desk EXCEPT !.field = text])
    /\ UNCHANGED <<token, gen, clicks, faults>>

\* The button is disabled while a call is under way; the field is emptied.
HandleManualSubmit ==
    /\ token # 0 /\ clicks < MaxClicks /\ ~desk.busy /\ desk.field # Blankness
    /\ clicks' = clicks + 1
    /\ Desk([submitCode(desk, desk.field) EXCEPT !.field = Blankness])
    /\ UNCHANGED <<token, gen, faults>>

\* The server knows a ticket by its code alone.
ServeCheckIn(call) ==
    /\ call \in desk.calls /\ call.res = "sent"
    /\ LET ok == call.text.form = "code" /\ rows[call.text.id] = "confirmed" IN
       /\ rows' = IF ok THEN [rows EXCEPT ![call.text.id] = "checked_in"] ELSE rows
       /\ desk' = [desk EXCEPT !.calls = (@ \ {call})
                      \cup {[call EXCEPT !.res = IF ok THEN "success" ELSE "error"]}]
    /\ UNCHANGED <<page, token, gen, ui, jobs, clicks, faults, hist>>

\* The call fails; it may have been executed.
FailCheckIn(call, executed) ==
    /\ call \in desk.calls /\ call.res = "sent" /\ faults < MaxFaults
    /\ faults' = faults + 1
    /\ rows' = IF executed /\ call.text.form = "code"
               THEN [rows EXCEPT ![call.text.id] = "checked_in"] ELSE rows
    /\ desk' = [desk EXCEPT !.calls = (@ \ {call}) \cup {[call EXCEPT !.res = "error"]}]
    /\ UNCHANGED <<page, token, gen, ui, jobs, clicks, hist>>

\* Mutant: a failure leaves no result.
AnswerCheckIn_SilentError(call) ==
    /\ call \in desk.calls /\ call.res # "sent"
    /\ Desk([desk EXCEPT !.calls = @ \ {call}, !.busy = FALSE,
               !.result = IF call.res = "success"
                          THEN [kind |-> call.res, text |-> call.text] ELSE @])
    /\ UNCHANGED <<token, gen, clicks, faults>>

AnswerCheckIn(call) ==
    /\ call \in desk.calls /\ call.res # "sent"
    /\ Desk([desk EXCEPT !.calls = @ \ {call}, !.busy = FALSE,
               !.result = [kind |-> call.res, text |-> call.text]])
    /\ UNCHANGED <<token, gen, clicks, faults>>

\* The button stands beside a result; resuming a scanner that is not paused does
\* nothing.
HandleResumeScanning ==
    /\ token # 0 /\ desk.result # NoResult
    /\ Desk([desk EXCEPT !.result = NoResult,
                         !.scanner = IF @ = "paused" THEN "scanning" ELSE @])
    /\ UNCHANGED <<token, gen, clicks, faults>>

-----------------------------------------------------------------------------
DeskAnswer == \E call \in desk.calls : ServeCheckIn(call) \/ AnswerCheckIn(call)

DeskNext ==
    \/ OpenDesk \/ CloseDesk \/ HandleManualSubmit \/ HandleResumeScanning \/ DeskAnswer
    \/ \E text \in QrTexts : Decode(text)
    \/ \E text \in Codes \cup {Blankness} : TypeTicketCode(text)
    \/ \E call \in desk.calls, executed \in BOOLEAN : FailCheckIn(call, executed)

DeskSpec == DeskInit /\ [][DeskNext]_<<vars, desk>> /\ WF_<<vars, desk>>(DeskAnswer)

-----------------------------------------------------------------------------
\* One check-in is under way at a time, although the camera calls the handler of
\* an older render (checkin/page.tsx:101), and a scanner that paused itself shows a
\* result, with the button that resumes it, or is about to.  The one text that pauses
\* it for nothing is a blank one: submitCode drops it without a call, and no button
\* resumes the scanner until a code that is typed brings a result.
PausedScannerExplained ==
    /\ Cardinality(desk.calls) <= 1
    /\ desk.scanner = "paused" => desk.result # NoResult \/ desk.calls # {} \/ desk.blank

\* What the page asks for (checkin/page.tsx:136): scan the QR code of the
\* attendee's ticket.  A valid ticket whose QR code is read is not refused.
ScannedTicketAccepted ==
    desk.result.kind = "error" /\ desk.result.text.form = "url" /\ faults = 0
        => rows[desk.result.text.id] = "checked_in"
=============================================================================
