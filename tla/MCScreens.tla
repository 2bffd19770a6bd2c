------------------------------ MODULE MCScreens -------------------------------
(* The whole route table, one operation and one query at a time. *)
EXTENDS QueryCache, Screens

WritesOf(o) == UNION {UNION {o.steps[i].requests[j].writes : j \in DOMAIN o.steps[i].requests}
                         : i \in DOMAIN o.steps}

\* Operation o made on path s, followed through query q.
Story(table, s, o, q) ==
    LET visits == {s, "elsewhere"} \cup ({o.leads} \cap DOMAIN table)
        known  == visits \cap DOMAIN table
    IN [ query |-> q, op |-> o, visits |-> visits,
         mounting |-> {t \in known : q \in table[t].mounts},
         offering |-> {t \in known : o \in table[t].offers} ]

\* The queries o touches on s and on the page it leads to.
Touched(table, s, o) ==
    {q \in UNION {table[t].mounts : t \in {s} \cup ({o.leads} \cap DOMAIN table)} :
        q.reads \cap WritesOf(o) # {}}

\* One page stands for all that offer o, mount q and lead on alike.
Shape(story) == <<story.query, story.mounting = {}, story.mounting = story.visits>>
StoriesOf(table, o) ==
    LET stories == UNION {{Story(table, s, o, q) : q \in Touched(table, s, o)}
                             : s \in {t \in DOMAIN table : o \in table[t].offers}}
    IN {CHOOSE story \in stories : Shape(story) = shape
           : shape \in {Shape(story) : story \in stories}}

AllCases ==
    LET table == AllScreens
    IN UNION {StoriesOf(table, o) : o \in UNION {table[s].offers : s \in DOMAIN table}}

\* What the code leaves stale on the page of the operation itself.
AllKnownGaps ==
    UNION {
      \* The timeline of an invoice is under a key of its own.
      {"useUpdateInvoice", "PaymentRecordingForm.recordPayment", "InvoiceDetail.send",
       "InvoiceDetail.cancel", "InvoiceSendPage.send", "InvoicePaymentPage.payment"}
          \X {<<"invoice-timeline", "id">>},
      \* So is that of a VPS, and a quote's.
      {"useStartContainer", "useStopContainer", "useRebootContainer",
       "useUpgradeSubscription", "useCancelSubscription"} \X {<<"vps", "timeline", "id">>},
      {<<"QuoteApprovePage.approve", <<"corporate-quote-timeline", "id">>>>},
      \* Only the list ["corporate-quotes"] is invalidated.
      {<<"QuoteConvertPage.convert", <<"corporate-quote", "id">>>>},
      \* The admin page deletes with the customer's hook, which knows its own keys.
      {"useDeleteDNSZone"} \X {<<"dns", "admin", "zones", "p">>,
                               <<"dns", "admin", "zones", "id">>},
      \* The page refetches the ticket, and shows the replies from another key.
      {<<"TicketReplyForm.createReply", <<"ticket-replies", "id">>>>},
      \* Two pages write a role's permissions through the service, past the hooks.
      {"RoleEditPage.permissions", "RolePermissionsPage.submit"} \X {<<"roles", "id">>},
      \* The product forms invalidate nothing.
      {"ProductFormPage.mutation"}
          \X {<<"product", "id">>,
              <<"admin-products", "p", "p", "p", "p", "p">>,
              <<"corporate-products", "p", "p", "p", "p", "p">>} }

\* The hypothesis of the theorem on OwnScreenIsCurrent, for the route table.
ASSUME TableAssumption == NoOtherGaps
=============================================================================
