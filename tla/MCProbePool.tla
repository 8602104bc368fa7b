---------------------------- MODULE MCProbePool ----------------------------
\* Instances of ProbePool for TLC.
EXTENDS ProbePool

\* One answer for each way a probe can end.
TypicalAnswers ==
  {<< >>, <<"error", "ok", "ok">>, <<"ok", "ok", "ok">>, <<"bad", "ok", "ok">>,
   <<"missing", "error", "ok">>, <<"missing", "missing", "missing">>}
============================================================================
