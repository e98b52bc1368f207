---------------------------- MODULE MCPumpHistory ----------------------------
(* Instance of PumpHistory for TLC: the clock is seen through the ages of   *)
(* all timestamps, capped where no guard or property tells them apart.      *)
EXTENDS PumpHistory

MaxOf(a, b) == IF a > b THEN a ELSE b
MinOf(a, b) == IF a < b THEN a ELSE b
Age(t, cap) == IF t = NoTime THEN -1 ELSE MinOf(now - t, cap)
\* Time left until t, down to the point past which it is over.
Left(t) == IF t = NoTime THEN -2 ELSE MaxOf(t - now, -1)

TestCap == MaxOf(PumpTestInterval, GateFallback)

AgesView ==
  <<readings, pump, manual_disabled, manual_override,
    extended_run, test_running, skip_logged, test_gate_open, ota_pending,
    Age(manual_override_start, ManualOverrideDuration + 1),
    Age(extended_run_start, ExtendedRunMax),
    IF extended_run THEN extended_run_duration ELSE 0,
    IF test_running THEN Age(test_start_time, PumpTestDuration) ELSE 0,
    Age(last_test, TestCap),
    run_asked, Left(run_until), boost_asked, Left(boost_until),
    Age(fresh_at, TestCap), Age(idle_since, TestCap)>>

\* README.md:32 and controller.py:516: in holiday mode the "system stays off
\* until mode 0 is received".  Taken generously, until any command is received
\* or the Pico restarts: no cycle ends a holiday by itself.
HolidayLasts ==
  [][manual_disabled /\ ~manual_disabled' => Command \/ Reboot]_vars
=============================================================================
