------------------------------ MODULE MCJobLogs ------------------------------
EXTENDS JobLogs

\* Characters of one and four bytes: a chunk of four bytes cuts the second one.
TwoLines == <<1, 4>>
AllFaults == FaultKinds
=============================================================================
