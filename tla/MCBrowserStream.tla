-------------------------- MODULE MCBrowserStream --------------------------
EXTENDS BrowserStream
=============================================================================
