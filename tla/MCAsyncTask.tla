----------------------------- MODULE MCAsyncTask -----------------------------
\* Small instances of AsyncTask.  Tasks are interchangeable in every safety run.
EXTENDS AsyncTask, TLC

TaskSymmetry == Permutations(Task)
==============================================================================
