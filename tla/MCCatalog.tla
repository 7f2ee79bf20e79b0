----------------------------- MODULE MCCatalog -----------------------------
EXTENDS Catalog

MCQueueOf == <<"a", "a", "a", "b">>
MCTaskOf == <<"mail", "report", "mail", "mail">>
MCCreatedAt == <<1, 2, 2, 3>>
MCStartsIn == <<{"dead"}, {"pending", "completed", "expired", "dead"}, {"dead"}, {"new"}>>

Everything == [queue |-> AnyValue, state |-> AnyValue, task |-> AnyValue, offset |-> 0, limit |-> 2]

MCFilters ==
  {[Everything EXCEPT !.queue = "a"],
   [Everything EXCEPT !.queue = "a", !.state = "dead", !.limit = 1, !.offset = 1],
   [Everything EXCEPT !.state = "dead", !.task = "mail"]}

=============================================================================
