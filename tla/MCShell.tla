------------------------------ MODULE MCShell ------------------------------
\* A small instance of Shell.
EXTENDS Shell

\* No history, one entry as long as the buffer, a blank line at the end, a full
\* history.
MCHistories == {<<>>, <<<<"a", "a", "a">>>>, <<<<"a">>, <<>>>>,
                <<<<"a">>, <<" ", "a">>, <<"a">>>>}
MCCommands == {<<"a">>}
=============================================================================
