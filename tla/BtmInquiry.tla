------------------------------ MODULE BtmInquiry ------------------------------
(***************************************************************************)
(* The inquiry and observe glue of src/main/shim/btm_api.cc: the legacy    *)
(* control block btm_cb.btm_inq_vars / btm_cb.ble_ctr_cb as the shim      *)
(* drives it, the gd Btm calls it makes, and the upper layer that calls    *)
(* BTM_StartInquiry, BTM_CancelInquiry, BTM_SetInquiryMode and            *)
(* BTM_BleObserve.  The controller sends each result in the event format   *)
(* of the result mode gd was last given.                                   *)
(*                                                                         *)
(* BTM_StartInquiry, BTM_BleObserve and the locked part of the observing   *)
(* timeout hold btm_cb_mutex_.  The inquiry-complete lambda, the result    *)
(* handlers and BTM_CancelInquiry take no lock, so they can run between    *)
(* the gd StartInquiry call and the assignments that follow it.            *)
(*                                                                         *)
(* The shim never writes btm_cb.btm_inq_vars.inqparms, so its mode,        *)
(* max_resps and report_dup keep their zero initial values: the            *)
(* max-responses and duplicate-report branches are dead and are left out.  *)
(***************************************************************************)
EXTENDS Naturals, FiniteSets

CONSTANTS
    Devices,        \* remote devices that answer inquiries
    LeDevices,      \* devices already in the inquiry database from LE scanning
    ResultKinds,    \* result modes BTM_SetInquiryMode may set: "STD", "RSSI", "EIR"
    MaxInquiries,   \* bound on BTM_StartInquiry calls
    MaxObserves,    \* bound on BTM_BleObserve(true, ...) calls
    MaxResults,     \* bound on inquiry result events
    ZeroDuration    \* may a caller pass inqparms.duration = 0 (no scanning timer)

VARIABLES
    inq_active,     \* btm_inq_vars.inq_active != BTM_INQUIRY_INACTIVE
    inq_state,      \* btm_inq_vars.state
    inq_results_cb, \* btm_inq_vars.p_inq_results_cb != nullptr
    inq_cmpl_cb,    \* btm_inq_vars.p_inq_cmpl_cb != nullptr
    inq_counter,    \* btm_inq_vars.inq_counter
    num_resp,       \* btm_inq_vars.inq_cmpl_info.num_resp
    scan_type,      \* btm_inq_vars.scan_type
    db,             \* inquiry database: [present, inq_count, type]
    obs_bit,        \* ble_ctr_cb.scan_activity & BTM_LE_OBSERVE_ACTIVE
    obs_results_cb, \* ble_ctr_cb.p_obs_results_cb != nullptr
    obs_cmpl_cb,    \* ble_ctr_cb.p_obs_cmpl_cb != nullptr
    gd,             \* gd Btm: inquiry, scanning, observing, the two timers,
                    \* an observing-timeout lambda waiting for the lock, and
                    \* the inquiry result mode, and the result handler the
                    \* gd thread is in the middle of (or SIGSEGV)
    start_pc,       \* BTM_StartInquiry: "idle", or "started" after gd StartInquiry
    upper,          \* upper layer: [inq, obs] each "idle" or "active"
    reports,        \* new-device results delivered to the current inquiry, per device
    obs_cmpls,      \* observe completions delivered for the current observation
    used            \* calls and events so far, per bound

vars == <<inq_active, inq_state, inq_results_cb, inq_cmpl_cb, inq_counter,
          num_resp, scan_type, db, obs_bit, obs_results_cb, obs_cmpl_cb,
          gd, start_pc, upper, reports, obs_cmpls, used>>
inqvars == <<inq_active, inq_state, inq_results_cb, inq_cmpl_cb, inq_counter,
             num_resp, scan_type>>
obsvars == <<obs_bit, obs_results_cb, obs_cmpl_cb, obs_cmpls>>

Locked == start_pc = "idle"

\* btm_clear_all_pending_le_entry, btm_sort_inq_result and
\* btm_acl_update_busy_level change nothing this model tracks.

\* The end of an inquiry as BTM_CancelInquiry, the inquiry-complete lambda
\* and the observing timeout write it: inactive, callbacks cleared (before
\* p_inq_cmpl_cb is tested, so the completion is never sent), counter
\* advanced (btm_clr_inq_result_flt clears the result filter).
EndInquiry ==
    /\ inq_active' = FALSE
    /\ inq_results_cb' = FALSE
    /\ inq_cmpl_cb' = FALSE
    /\ inq_counter' = inq_counter + 1

\* "if (inqparms.mode == BTM_INQUIRY_NONE && scan_type == INQ_GENERAL)":
\* inqparms.mode is always BTM_INQUIRY_NONE.
ResetScanType == scan_type' = "NONE"

-----------------------------------------------------------------------------
(* Upper layer calls.                                                      *)

\* BTM_StartInquiry up to the gd StartInquiry call: reset the response
\* count, start active scanning, maybe arm the scanning timer; a failed
\* SetInquiryFilter or StartInquiry returns BTM_ERR_PROCESSING and leaves
\* scanning running.
\* timed: inqparms.duration != 0, so SetScanningTimer is called.
Durations == IF ZeroDuration THEN BOOLEAN ELSE {TRUE}

\* Mutant of StartInquiry: the scanning timer armed only once both calls
\* have succeeded.
StartInquiryArmsLate ==
    /\ Locked /\ upper.inq = "idle" /\ used.inquiries < MaxInquiries
    /\ num_resp' = 0 /\ scan_type' = "GENERAL"
    /\ used' = [used EXCEPT !.inquiries = @ + 1]
    /\ reports' = [d \in Devices |-> 0]
    /\ \E timed \in Durations, ok \in BOOLEAN :
         /\ gd' = [gd EXCEPT !.scanning = TRUE, !.scan_timer = @ \/ (timed /\ ok),
                             !.inquiry = ok]
         /\ start_pc' = IF ok THEN "started" ELSE "idle"
    /\ UNCHANGED <<inq_active, inq_state, inq_results_cb, inq_cmpl_cb,
                   inq_counter, db, obsvars, upper>>

StartInquiry ==
    /\ Locked /\ upper.inq = "idle" /\ used.inquiries < MaxInquiries
    /\ num_resp' = 0
    /\ scan_type' = "GENERAL"
    /\ used' = [used EXCEPT !.inquiries = @ + 1]
    /\ reports' = [d \in Devices |-> 0]
    /\ \E timed \in Durations, ok \in BOOLEAN :
         /\ gd' = [gd EXCEPT !.scanning = TRUE, !.scan_timer = @ \/ timed,
                             !.inquiry = ok]
         /\ start_pc' = IF ok THEN "started" ELSE "idle"
    /\ UNCHANGED <<inq_active, inq_state, inq_results_cb, inq_cmpl_cb,
                   inq_counter, db, obsvars, upper>>

\* The rest of BTM_StartInquiry: mark the inquiry active with the caller's
\* callbacks and return BTM_CMD_STARTED.
StartInquiryReturn ==
    /\ start_pc = "started"
    /\ start_pc' = "idle"
    /\ inq_state' = "ACTIVE"
    /\ inq_cmpl_cb' = TRUE
    /\ inq_results_cb' = TRUE
    /\ inq_active' = TRUE
    /\ upper' = [upper EXCEPT !.inq = "active"]
    /\ UNCHANGED <<inq_counter, num_resp, scan_type, db, obsvars, gd,
                   reports, used>>

\* BTM_SetInquiryMode (no lock): the gd result mode, which decides the
\* result event the controller sends for each device found.  Any other
\* value returns BTM_ILLEGAL_VALUE and changes nothing.
SetInquiryMode(m) ==
    /\ gd' = [gd EXCEPT !.result_mode = m]
    /\ UNCHANGED <<inqvars, db, obsvars, start_pc, upper, reports, used>>

\* BTM_CancelInquiry (no lock): cancel the gd inquiry and the scanning,
\* and end an active inquiry.
CancelInquiry ==
    /\ upper.inq = "active"
    /\ upper' = [upper EXCEPT !.inq = "idle"]
    /\ gd' = [gd EXCEPT !.inquiry = FALSE, !.scanning = FALSE, !.scan_timer = FALSE]
    /\ inq_state' = "INACTIVE"
    /\ IF inq_active
       THEN EndInquiry
       ELSE UNCHANGED <<inq_active, inq_results_cb, inq_cmpl_cb, inq_counter>>
    /\ ResetScanType
    /\ UNCHANGED <<num_resp, db, obsvars, start_pc, reports, used>>

-----------------------------------------------------------------------------
(* The gd side: inquiry results, inquiry complete, timers.                 *)

\* An entry answered already in this inquiry and known as BR/EDR only.
Answered(d) ==
    db[d].present /\ db[d].inq_count = inq_counter /\ db[d].type = {"BREDR"}

\* The is_new update of a result handler.  inq_count is assigned before it
\* is compared with inq_counter, so the "first answer" branch (BREDR type,
\* num_resp++) never runs and the type only gains BREDR.
Record(d) ==
    db' = [db EXCEPT ![d] = [present |-> TRUE, inq_count |-> inq_counter,
                             type |-> @.type \cup {"BREDR"}]]

Report(d) == reports' = [reports EXCEPT ![d] = @ + 1]

\* The result handler on the gd thread has found p_inq_results_cb set and
\* goes on to call it; the call reads the pointer again.
Call(d, what) == gd' = [gd EXCEPT !.res_call = [dev |-> d, what |-> what, inq |-> inq_counter]]

NoCall == [dev |-> "none", what |-> "none", inq |-> 0]
Crashed == gd.res_call.what = "SIGSEGV"

\* A result event: the controller, while inquiring, reports a device in the
\* format of its current result mode, to the gd thread once it has
\* finished the previous result.
ResultEvent(kind) ==
    /\ kind = gd.result_mode /\ gd.inquiry /\ used.results < MaxResults
    /\ gd.res_call.what = "none"
    /\ used' = [used EXCEPT !.results = @ + 1]

ProcessInquiryResult(d) ==
    /\ ResultEvent("STD")
    /\ IF Answered(d)
       THEN UNCHANGED <<db, gd>>
       ELSE /\ Record(d)
            /\ IF inq_results_cb THEN Call(d, "new") ELSE UNCHANGED gd
    /\ UNCHANGED <<inqvars, obsvars, start_pc, upper, reports>>

\* btm_api_process_inquiry_result_with_rssi: the same, with the update
\* path needing inqparms.report_dup, which is never set.
ProcessInquiryResultWithRssi(d) ==
    /\ ResultEvent("RSSI")
    /\ IF Answered(d) THEN UNCHANGED db ELSE Record(d)
    /\ IF inq_results_cb /\ ~Answered(d) THEN Call(d, "new") ELSE UNCHANGED gd
    /\ UNCHANGED <<inqvars, obsvars, start_pc, upper, reports>>

\* btm_api_process_extended_inquiry_result: also reports an update of a
\* known entry when btm_inq_find_bdaddr (legacy code, whose result depends
\* on the legacy result filter) finds the address.
ProcessExtendedInquiryResult(d) ==
    /\ ResultEvent("EIR")
    /\ \E found \in BOOLEAN :
         LET update == found /\ db[d].present IN
         /\ IF Answered(d) THEN UNCHANGED db ELSE Record(d)
         /\ CASE inq_results_cb /\ ~Answered(d) -> Call(d, "new")
              [] inq_results_cb /\ update -> Call(d, "update")
              [] OTHER -> UNCHANGED gd
    /\ UNCHANGED <<inqvars, obsvars, start_pc, upper, reports>>

\* The call (*p_inq_results_cb)(...) that ends each result handler.  It
\* re-reads the pointer without a lock, and BTM_CancelInquiry or another
\* end of the inquiry may have cleared it since the test; that read is a
\* data race, so the build may reuse the value it tested (the old callback
\* is called after the inquiry ended) or load nullptr and crash.  Once a
\* later inquiry has started, the call reaches its callback instead; reports
\* counts only the results of the inquiry the handler ran for.
DeliverResult ==
    /\ gd.res_call.what \in {"new", "update"}
    /\ LET c == gd.res_call
           deliver ==
               /\ gd' = [gd EXCEPT !.res_call = NoCall]
               /\ IF c.what = "new" /\ c.inq = inq_counter
                  THEN Report(c.dev) ELSE UNCHANGED reports
       IN IF inq_results_cb
          THEN deliver
          ELSE \/ deliver
               \/ gd' = [gd EXCEPT !.res_call.what = "SIGSEGV"] /\ UNCHANGED reports
    /\ UNCHANGED <<inqvars, db, obsvars, start_pc, upper, used>>

\* The inquiry-complete lambda (no lock): end an active inquiry.
InquiryComplete ==
    /\ gd.inquiry
    /\ gd' = [gd EXCEPT !.inquiry = FALSE]
    /\ IF inq_active
       THEN EndInquiry /\ inq_state' = "INACTIVE"
       ELSE UNCHANGED <<inq_active, inq_results_cb, inq_cmpl_cb, inq_counter, inq_state>>
    /\ ResetScanType
    /\ UNCHANGED <<num_resp, db, obsvars, start_pc, upper, reports, used>>

\* The scanning-timeout lambda: stop active scanning under the lock.
ScanningTimeout ==
    /\ Locked /\ gd.scan_timer
    /\ gd' = [gd EXCEPT !.scan_timer = FALSE, !.scanning = FALSE]
    /\ UNCHANGED <<inqvars, db, obsvars, start_pc, upper, reports, used>>

-----------------------------------------------------------------------------
(* BTM_BleObserve and the observing timeout.                               *)

\* BTM_BleObserve(true, ...): refuse when observing is marked active;
\* otherwise store the callbacks, start observing, maybe arm the timer.
ObserveStart ==
    /\ Locked /\ upper.obs = "idle" /\ used.observes < MaxObserves
    /\ used' = [used EXCEPT !.observes = @ + 1]
    /\ IF obs_bit
       THEN UNCHANGED <<obsvars, gd, upper>>
       ELSE /\ obs_results_cb' = TRUE /\ obs_cmpl_cb' = TRUE /\ obs_bit' = TRUE
            /\ obs_cmpls' = 0
            /\ upper' = [upper EXCEPT !.obs = "active"]
            /\ \E timed \in BOOLEAN :
                 gd' = [gd EXCEPT !.observing = TRUE, !.obs_timer = @ \/ timed]
    /\ UNCHANGED <<inqvars, db, start_pc, reports>>

\* Mutant of ObserveStop: the completion callback is not cleared.
ObserveStopKeepsCallback ==
    /\ Locked /\ upper.obs = "active"
    /\ gd' = [gd EXCEPT !.obs_timer = FALSE, !.observing = FALSE]
    /\ obs_bit' = FALSE
    /\ obs_cmpls' = IF obs_cmpl_cb THEN obs_cmpls + 1 ELSE obs_cmpls
    /\ obs_results_cb' = FALSE
    /\ upper' = [upper EXCEPT !.obs = "idle"]
    /\ UNCHANGED <<obs_cmpl_cb, inqvars, db, start_pc, reports, used>>

\* BTM_BleObserve(false, ...): cancel the timer, stop observing, complete
\* and clear the callbacks.
ObserveStop ==
    /\ Locked /\ upper.obs = "active"
    /\ gd' = [gd EXCEPT !.obs_timer = FALSE, !.observing = FALSE]
    /\ obs_bit' = FALSE
    /\ obs_cmpls' = IF obs_cmpl_cb THEN obs_cmpls + 1 ELSE obs_cmpls
    /\ obs_results_cb' = FALSE /\ obs_cmpl_cb' = FALSE
    /\ upper' = [upper EXCEPT !.obs = "idle"]
    /\ UNCHANGED <<inqvars, db, start_pc, reports, used>>

\* The observing timer pops: its lambda cancels the timer and stops
\* observing before it takes the lock.
ObserveTimerFires ==
    /\ gd.obs_timer
    /\ gd' = [gd EXCEPT !.obs_timer = FALSE, !.observing = FALSE, !.obs_fired = TRUE]
    /\ UNCHANGED <<inqvars, db, obsvars, start_pc, upper, reports, used>>

\* Mutant of ObserveTimeout: the completion callback is not called.
ObserveTimeoutSilent ==
    /\ Locked /\ gd.obs_fired
    /\ gd' = [gd EXCEPT !.obs_fired = FALSE]
    /\ obs_bit' = FALSE
    /\ obs_results_cb' = FALSE /\ obs_cmpl_cb' = FALSE
    /\ UNCHANGED <<obs_cmpls, upper>>
    /\ EndInquiry /\ inq_state' = "INACTIVE" /\ ResetScanType
    /\ UNCHANGED <<num_resp, db, start_pc, reports, used>>

\* The rest of the lambda, under the lock: complete and clear the observe
\* callbacks, then end the inquiry state whether or not an inquiry is
\* running.
ObserveTimeout ==
    /\ Locked /\ gd.obs_fired
    /\ gd' = [gd EXCEPT !.obs_fired = FALSE]
    /\ obs_bit' = FALSE
    /\ IF obs_cmpl_cb
       THEN obs_cmpls' = obs_cmpls + 1 /\ upper' = [upper EXCEPT !.obs = "idle"]
       ELSE UNCHANGED <<obs_cmpls, upper>>
    /\ obs_results_cb' = FALSE /\ obs_cmpl_cb' = FALSE
    /\ EndInquiry /\ inq_state' = "INACTIVE" /\ ResetScanType
    /\ UNCHANGED <<num_resp, db, start_pc, reports, used>>

-----------------------------------------------------------------------------

Init ==
    /\ inq_active = FALSE /\ inq_state = "INACTIVE"
    /\ inq_results_cb = FALSE /\ inq_cmpl_cb = FALSE
    /\ inq_counter = 1 /\ num_resp = 0 /\ scan_type = "NONE"
    /\ db = [d \in Devices |-> [present |-> d \in LeDevices, inq_count |-> 0,
                                type |-> IF d \in LeDevices THEN {"BLE"} ELSE {}]]
    /\ obs_bit = FALSE /\ obs_results_cb = FALSE /\ obs_cmpl_cb = FALSE
    /\ gd = [inquiry |-> FALSE, scanning |-> FALSE, scan_timer |-> FALSE,
             observing |-> FALSE, obs_timer |-> FALSE, obs_fired |-> FALSE,
             result_mode |-> "STD", res_call |-> NoCall]
    /\ start_pc = "idle"
    /\ upper = [inq |-> "idle", obs |-> "idle"]
    /\ reports = [d \in Devices |-> 0]
    /\ obs_cmpls = 0
    /\ used = [inquiries |-> 0, observes |-> 0, results |-> 0]

\* After a call through a null p_inq_results_cb the process is dead.
Next ==
    /\ ~Crashed
    /\ \/ StartInquiry \/ StartInquiryReturn \/ CancelInquiry
       \/ \E m \in ResultKinds : SetInquiryMode(m)
       \/ \E d \in Devices :
            \/ ProcessInquiryResult(d)
            \/ ProcessInquiryResultWithRssi(d)
            \/ ProcessExtendedInquiryResult(d)
       \/ DeliverResult
       \/ InquiryComplete \/ ScanningTimeout
       \/ ObserveStart \/ ObserveStop \/ ObserveTimerFires \/ ObserveTimeout

\* The gd handler runs its timers and finishes a result handler it has
\* begun, and the rest of BTM_StartInquiry returns;
\* the controller finishes the inquiries it starts.  The upper layer and
\* the remote devices need not act.
Fairness ==
    /\ WF_vars(~Crashed /\ StartInquiryReturn)
    /\ WF_vars(~Crashed /\ DeliverResult)
    /\ WF_vars(~Crashed /\ InquiryComplete)
    /\ WF_vars(~Crashed /\ ScanningTimeout)
    /\ WF_vars(~Crashed /\ ObserveTimerFires)
    /\ WF_vars(~Crashed /\ ObserveTimeout)

Spec == Init /\ [][Next]_vars
FairSpec == Spec /\ Fairness


-----------------------------------------------------------------------------
(* Properties.                                                             *)

TypeOK ==
    /\ inq_active \in BOOLEAN /\ inq_state \in {"ACTIVE", "INACTIVE"}
    /\ inq_results_cb \in BOOLEAN /\ inq_cmpl_cb \in BOOLEAN
    /\ inq_counter \in Nat /\ num_resp \in Nat /\ scan_type \in {"NONE", "GENERAL"}
    /\ db \in [Devices -> [present : BOOLEAN, inq_count : Nat,
                           type : SUBSET {"BREDR", "BLE"}]]
    /\ obs_bit \in BOOLEAN /\ obs_results_cb \in BOOLEAN /\ obs_cmpl_cb \in BOOLEAN
    /\ start_pc \in {"idle", "started"}
    /\ upper \in [inq : {"idle", "active"}, obs : {"idle", "active"}]
    /\ reports \in [Devices -> Nat] /\ obs_cmpls \in Nat

ObserveCompletedAtMostOnce == obs_cmpls <= 1

\* An observation started with a duration is eventually completed.
ObserveWithTimeoutCompletes ==
    (upper.obs = "active" /\ gd.obs_timer) ~> (upper.obs = "idle" \/ Crashed)

\* Active scanning that BTM_StartInquiry starts is eventually stopped, even
\* when SetInquiryFilter or gd StartInquiry fails and BTM_ERR_PROCESSING
\* is returned: the scanning timer is armed before either call.
ScanningStops ==
    (gd.scanning /\ start_pc = "idle" /\ upper.inq = "idle") ~> (~gd.scanning \/ Crashed)

\* Once the controller has finished an inquiry the upper layer started, the
\* upper layer is told: the inquiry-complete lambda calls p_inq_cmpl_cb.
InquiryCompletionDelivered ==
    (upper.inq = "active" /\ ~gd.inquiry) ~> (upper.inq = "idle" \/ Crashed)

\* The control block never marks an inquiry active that the controller is
\* not running, once BTM_StartInquiry has returned.
InquiryActiveOnlyWhileRunning ==
    (start_pc = "idle" /\ ~gd.inquiry) => ~inq_active

=============================================================================
