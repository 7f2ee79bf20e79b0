--------------------------- MODULE MCDocumentLife ---------------------------
EXTENDS DocumentLife

\* A request with no optional field set, and variations of it.
Plain == [maxRetries |-> Unset, baseDelay |-> Unset, maxDelay |-> Unset, strategy |-> "",
          timeout |-> Unset, delay |-> Unset, runAt |-> Unset]

MCRequests ==
  {Plain,
   [Plain EXCEPT !.delay = 1, !.maxRetries = 1, !.strategy = "linear"],
   [Plain EXCEPT !.runAt = Start + 1, !.strategy = "constant", !.baseDelay = 2],
   [Plain EXCEPT !.maxRetries = 2, !.baseDelay = 1, !.maxDelay = 2, !.timeout = 2],
   [Plain EXCEPT !.delay = 1, !.runAt = Start],
   [Plain EXCEPT !.baseDelay = 2, !.maxDelay = 1],
   [Plain EXCEPT !.maxRetries = 3]}

=============================================================================
