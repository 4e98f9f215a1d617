------------------------------ MODULE SimUnlock ------------------------------
(***************************************************************************)
(* The SIM unlock dialog (SimUnlockDialog, src/src/indicator/              *)
(* sim-unlock-dialog.h) driving one ofono modem's SimManager.  The header  *)
(* gives the dialog's states; the behaviour is that of spec.md section     *)
(* 4.5 and 5 and of the UnlockSIM_* integration tests, since the          *)
(* implementation is not part of this tree.                                *)
(*                                                                         *)
(* EnterPin and ResetPin are fire-and-forget calls whose outcome is        *)
(* observed through later property changes, not return values (spec.md    *)
(* section 6).  The modem answers each call in order: it changes its lock  *)
(* and retry counters and sends PropertyChanged signals (Retries, then     *)
(* PinRequired), which the indicator handles on its one event loop in     *)
(* delivery order.  The dialog's view of the modem is the Modem object's   *)
(* cached properties, updated only by those signals; a drop in a retry     *)
(* counter is how the dialog learns that a code was wrong.                 *)
(***************************************************************************)
EXTENDS Naturals, Sequences

CONSTANTS PinTries,     \* PIN attempts of a fresh SIM (3 in the tests)
          PukTries,     \* PUK attempts (10 in the tests)
          MaxCalls,     \* bound: EnterPin/ResetPin calls made
          MaxSessions   \* bound: dialogs opened

LockTypes == {"none", "pin", "puk"}            \* ofono PinRequired
CodeTypes == {"pin", "puk"}

\* enum class State, sim-unlock-dialog.h 39-43.
DialogStates == {"ready", "unlocking", "changingPin"}

\* The code the notification asks for: unlocking asks for the PIN or the
\* PUK, changingPin for the new PIN and its confirmation.
Prompts == {"pin", "puk", "newpin", "confirm"}

VARIABLES lock, retries,       \* the SIM: PinRequired and Retries
          calls,               \* calls sent to the modem, not yet processed
          inbox,               \* signals not yet handled
          known,               \* the Modem object's cached lock and retries
          state, prompt,       \* the dialog
          pukOk,               \* staged PUK: "right", "wrong" or "none"
          notif, nextId,       \* open notification id (0: none); last id
          error,               \* the error text shown: "none", "pin", "puk"
          session,             \* dialogs opened so far
          ncalls               \* calls made so far

vars == <<lock, retries, calls, inbox, known, state, prompt, pukOk, notif,
          nextId, error, session, ncalls>>

\* PropertyChanged signals of the SimManager.
NoRetries == [pin |-> 0, puk |-> 0]
RetriesEv(r) == [kind |-> "retries", retries |-> r, lock |-> "none"]
RequiredEv(l) == [kind |-> "required", retries |-> NoRetries, lock |-> l]

Init ==
    /\ lock \in {"pin", "puk"}
    /\ retries = [pin |-> IF lock = "pin" THEN PinTries ELSE 0, puk |-> PukTries]
    /\ calls = <<>>
    /\ inbox = <<>>
    /\ known = [lock |-> lock, retries |-> retries]
    /\ state = "ready"
    /\ prompt = "pin"
    /\ pukOk = "none"
    /\ notif = 0
    /\ nextId = 0
    /\ error = "none"
    /\ session = 0
    /\ ncalls = 0

-----------------------------------------------------------------------------
(* The modem (ofono SimManager), answering the oldest call                 *)

\* EnterPin(pin): a right PIN unlocks the SIM; a wrong one costs an attempt,
\* and the last one blocks the PIN.  Without a PIN lock the call fails.
EnterPinEffect(ok) ==
    LET n == retries.pin - 1
    IN CASE lock = "pin" /\ ok ->
              <<"none", [retries EXCEPT !.pin = PinTries], <<RequiredEv("none")>>>>
         [] lock = "pin" ->
              <<IF n = 0 THEN "puk" ELSE "pin", [retries EXCEPT !.pin = n],
                <<RetriesEv([retries EXCEPT !.pin = n])>>
                  \o (IF n = 0 THEN <<RequiredEv("puk")>> ELSE <<>>)>>
         [] OTHER -> <<lock, retries, <<>>>>

\* ResetPin("puk", puk, newpin): a right PUK unlocks the SIM and resets
\* both counters; a wrong one costs a PUK attempt.  With no PUK attempts
\* left the SIM is blocked for good and every call fails.
ResetPinEffect(ok) ==
    LET fresh == [pin |-> PinTries, puk |-> PukTries]
        n == retries.puk - 1
    IN CASE lock = "puk" /\ retries.puk > 0 /\ ok ->
              <<"none", fresh, <<RetriesEv(fresh), RequiredEv("none")>>>>
         [] lock = "puk" /\ retries.puk > 0 ->
              <<"puk", [retries EXCEPT !.puk = n],
                <<RetriesEv([retries EXCEPT !.puk = n])>>>>
         [] OTHER -> <<lock, retries, <<>>>>

Answer ==
    /\ calls /= <<>>
    /\ LET c   == Head(calls)
           eff == IF c.op = "EnterPin" THEN EnterPinEffect(c.ok)
                  ELSE ResetPinEffect(c.ok)
       IN /\ lock' = eff[1]
          /\ retries' = eff[2]
          /\ inbox' = inbox \o eff[3]
    /\ calls' = Tail(calls)
    /\ UNCHANGED <<known, state, prompt, pukOk, notif, nextId, error, session,
                   ncalls>>

-----------------------------------------------------------------------------
(* The user                                                                *)

\* unlock(modem): the user activates the locked SIM's unlock action and a
\* notification opens with the code the Modem object says is required.
\* While a dialog is open, activating it again reuses it (no step).  A SIM
\* whose PUK attempts are used up is not prompted for again.
Unlock ==
    /\ state = "ready"
    /\ known.lock \in CodeTypes
    /\ ~(known.lock = "puk" /\ known.retries.puk = 0)
    /\ session < MaxSessions
    /\ session' = session + 1
    /\ nextId' = nextId + 1
    /\ notif' = nextId + 1
    /\ state' = "unlocking"
    /\ prompt' = known.lock
    /\ error' = "none"
    /\ UNCHANGED <<lock, retries, calls, inbox, known, pukOk, ncalls>>

\* Mutant: cancel() leaves the notification open.
CancelNoClose ==
    /\ state /= "ready"
    /\ state' = "ready"
    /\ pukOk' = "none"
    /\ error' = "none"
    /\ UNCHANGED <<lock, retries, calls, inbox, known, prompt, notif, nextId,
                   session, ncalls>>

\* cancel(): the notification is closed and the staged codes discarded.
\* A second cancel is a no-op.
Cancel ==
    /\ state /= "ready"
    /\ state' = "ready"
    /\ notif' = 0
    /\ pukOk' = "none"
    /\ error' = "none"
    /\ UNCHANGED <<lock, retries, calls, inbox, known, prompt, nextId, session,
                   ncalls>>

\* A fire-and-forget call to the modem.
Call(op, ok) ==
    /\ ncalls < MaxCalls
    /\ calls' = Append(calls, [op |-> op, ok |-> ok])
    /\ ncalls' = ncalls + 1

\* The user enters the PIN: EnterPin("pin", code).
EnterPin ==
    /\ state = "unlocking" /\ prompt = "pin"
    /\ \E ok \in BOOLEAN : Call("EnterPin", ok)
    /\ error' = "none"
    /\ UNCHANGED <<lock, retries, inbox, known, state, prompt, pukOk, notif,
                   nextId, session>>

\* The user enters the PUK: it is staged and a new PIN is asked for.
EnterPuk ==
    /\ state = "unlocking" /\ prompt = "puk"
    /\ pukOk' \in {"right", "wrong"}
    /\ state' = "changingPin"
    /\ prompt' = "newpin"
    /\ error' = "none"
    /\ UNCHANGED <<lock, retries, calls, inbox, known, notif, nextId, session,
                   ncalls>>

\* The user enters the new PIN: it is staged and asked for again.
EnterNewPin ==
    /\ state = "changingPin" /\ prompt = "newpin"
    /\ prompt' = "confirm"
    /\ UNCHANGED <<lock, retries, calls, inbox, known, state, pukOk, notif,
                   nextId, error, session, ncalls>>

\* The user confirms the new PIN.  A match calls ResetPin("puk", puk, pin)
\* and the prompt stays until the modem answers; a mismatch goes back to
\* the PUK.
ConfirmPin ==
    /\ state = "changingPin" /\ prompt = "confirm"
    /\ \/ /\ Call("ResetPin", pukOk = "right")
          /\ UNCHANGED <<state, prompt, pukOk>>
       \/ /\ state' = "unlocking" /\ prompt' = "puk" /\ pukOk' = "none"
          /\ UNCHANGED <<calls, ncalls>>
    /\ UNCHANGED <<lock, retries, inbox, known, notif, nextId, error, session>>

-----------------------------------------------------------------------------
(* The dialog handling a signal or a reply on the event loop               *)

\* Mutant: only a dialog asking for the PIN or PUK closes on unlock.
HandleRequiredUnlockingOnly(l) ==
    CASE state = "unlocking" /\ l = "none" ->
            /\ state' = "ready" /\ notif' = 0 /\ pukOk' = "none" /\ error' = "none"
            /\ UNCHANGED prompt
      [] state = "unlocking" /\ prompt = "pin" /\ l = "puk" ->
            /\ prompt' = "puk"
            /\ UNCHANGED <<state, notif, pukOk, error>>
      [] OTHER -> UNCHANGED <<state, prompt, notif, pukOk, error>>

\* Mutant: a dialog showing an error does not close on unlock.
HandleRequiredIfNoError(l) ==
    CASE state /= "ready" /\ error = "none" /\ l = "none" ->
            /\ state' = "ready" /\ notif' = 0 /\ pukOk' = "none" /\ error' = "none"
            /\ UNCHANGED prompt
      [] state = "unlocking" /\ prompt = "pin" /\ l = "puk" ->
            /\ prompt' = "puk"
            /\ UNCHANGED <<state, notif, pukOk, error>>
      [] OTHER -> UNCHANGED <<state, prompt, notif, pukOk, error>>

\* PinRequired changed: the SIM unlocked closes the dialog; a PIN lock that
\* became a PUK lock switches the prompt to the PUK.
HandleRequired(l) ==
    CASE state /= "ready" /\ l = "none" ->
            /\ state' = "ready" /\ notif' = 0 /\ pukOk' = "none" /\ error' = "none"
            /\ UNCHANGED prompt
      [] state = "unlocking" /\ prompt = "pin" /\ l = "puk" ->
            /\ prompt' = "puk"
            /\ UNCHANGED <<state, notif, pukOk, error>>
      [] OTHER -> UNCHANGED <<state, prompt, notif, pukOk, error>>

\* Retries changed: a PIN counter that dropped means the PIN entered was
\* wrong, and "Sorry, incorrect PIN" shows on the PIN prompt; a PUK counter
\* that dropped means ResetPin failed, and the dialog shows "Sorry,
\* incorrect PUK" and asks for the PUK again (spec.md section 4.5).
HandleRetries(r) ==
    CASE state = "unlocking" /\ prompt = "pin" /\ r.pin < known.retries.pin ->
            /\ error' = "pin"
            /\ UNCHANGED <<state, prompt, pukOk>>
      [] state /= "ready" /\ r.puk < known.retries.puk ->
            /\ state' = "unlocking" /\ prompt' = "puk" /\ pukOk' = "none"
            /\ error' = "puk"
      [] OTHER -> UNCHANGED <<state, prompt, pukOk, error>>

\* The event loop handles the oldest signal: the Modem object updates its
\* cached property, then the dialog reacts to the change.
Handle ==
    /\ inbox /= <<>>
    /\ LET e == Head(inbox)
       IN CASE e.kind = "retries" ->
                 /\ known' = [known EXCEPT !.retries = e.retries]
                 /\ HandleRetries(e.retries)
                 /\ UNCHANGED notif
            [] OTHER ->
                 /\ known' = [known EXCEPT !.lock = e.lock]
                 /\ HandleRequired(e.lock)
    /\ inbox' = Tail(inbox)
    /\ UNCHANGED <<lock, retries, calls, nextId, session, ncalls>>

\* Nothing in flight: the system waits for the user.
Idle ==
    /\ calls = <<>> /\ inbox = <<>>
    /\ UNCHANGED vars

Next ==
    \/ Answer \/ Handle
    \/ Unlock \/ Cancel \/ EnterPin \/ EnterPuk \/ EnterNewPin \/ ConfirmPin
    \/ Idle

\* The modem answers every call and the event loop handles every event.
\* The user owes nothing.
Spec == Init /\ [][Next]_vars /\ WF_vars(Answer) /\ WF_vars(Handle)

-----------------------------------------------------------------------------
Events == {RetriesEv(r) : r \in [CodeTypes -> 0..(PinTries + PukTries)]}
          \cup {RequiredEv(l) : l \in LockTypes}

\* Every variable has its type, and a notification is open exactly while the
\* dialog is not ready: cancel() and the close on unlock both close it.
TypeOK ==
    /\ lock \in LockTypes
    /\ retries \in [CodeTypes -> 0..(PinTries + PukTries)] /\ known.retries \in [CodeTypes -> 0..(PinTries + PukTries)]
    /\ known.lock \in LockTypes
    /\ calls \in Seq([op : {"EnterPin", "ResetPin"}, ok : BOOLEAN])
    /\ inbox \in Seq(Events)
    /\ state \in DialogStates /\ prompt \in Prompts
    /\ pukOk \in {"right", "wrong", "none"}
    /\ error \in {"none", "pin", "puk"}
    /\ (state = "ready") <=> (notif = 0)

\* Every call answered and every event handled.
Drained == calls = <<>> /\ inbox = <<>>

\* Once every call is answered and every signal handled, an open
\* dialog asks for the code the SIM needs: none when the SIM is unlocked
\* (the dialog has closed, whichever of unlocking or changingPin it was
\* in), the PIN while PinRequired is "pin", the PUK or a new PIN while it is
\* "puk".  This must hold whatever the user does while calls and signals
\* are in flight (cancel, reopen, enter codes before the last one is
\* answered), with the dialog acting on a cached view of the SIM.
SessionFollowsLock ==
    Drained /\ state /= "ready" =>
        CASE lock = "none" -> FALSE
          [] lock = "pin"  -> prompt = "pin"
          [] OTHER         -> prompt /= "pin"

\* Once the SIM is unlocked, the dialog eventually closes its notification.
UnlockClosesDialog == lock = "none" ~> (state = "ready" /\ notif = 0)

=============================================================================
