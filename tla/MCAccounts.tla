----------------------------- MODULE MCAccounts -----------------------------
EXTENDS Accounts
=============================================================================
