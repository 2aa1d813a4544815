----------------------------- MODULE MCRunnerLoop -----------------------------
EXTENDS RunnerLoop, TLC
\* A stream filter that hides the start events, the user's messages and errors.
MCShown == {"call", "final", "result", "done"}
===============================================================================
