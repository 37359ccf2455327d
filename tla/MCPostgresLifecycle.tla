------------------------ MODULE MCPostgresLifecycle -------------------------
EXTENDS PostgresLifecycle
=============================================================================
