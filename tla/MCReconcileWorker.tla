-------------------------- MODULE MCReconcileWorker --------------------------
EXTENDS ReconcileWorker
=============================================================================
