------------------------ MODULE MCInterfaceReconcile ------------------------
EXTENDS InterfaceReconcile
=============================================================================
