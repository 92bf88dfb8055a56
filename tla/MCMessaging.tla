----------------------------- MODULE MCMessaging -----------------------------
EXTENDS Messaging, TLC

CONSTANTS m1, m2, f1, c1, c2, r1, r2

\* A status change writes a saga event and a row for the dashboards together;
\* another handler writes one event.
TwoTransactions == {{m1, f1}, {m2}}
=============================================================================
