----------------------------- MODULE MCImports -----------------------------
EXTENDS Imports
=============================================================================
