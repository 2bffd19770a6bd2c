-------------------------------- MODULE Pages --------------------------------
(***************************************************************************)
(* The other routed pages: client and corporate dashboards, hosting, DNS,  *)
(* invoices, quotes, orders, tickets, products, reports and revenue, and   *)
(* sign-in.                                                                *)
(***************************************************************************)
EXTENDS AdminPages

\* auth/pages
LoginPage ==
    LoginPageContent

RegisterPage ==
    RegisterPageContent

\* products/pages
ProductPage ==
    Screen({ UseProducts.useProduct,
             UseProducts.useCategories,
             UseProducts.useFeaturedProducts },
           {})

CataloguePage ==
    Screen({UseProducts.useProducts, UseProducts.useCategories}, {})

QuoteRequestPage ==
    Screen({UseQuotes.useQuoteRequests},
           { UseQuotes.useCreateQuoteRequest,
             UseQuotes.useApproveQuoteRequest,
             UseQuotes.useAcceptQuoteRequest,
             UseQuotes.useRejectQuoteRequest,
             UseQuotes.useDeleteQuoteRequest })

\* dashboard/pages
UserDashboardPage ==
    Screen({UseDashboard.useCustomerDashboard}, {})

ProfilePage ==
    Embed(Screen({Query(<<"customers", "me">>, CustomerService.getMyCustomer)}, {}),
          {KYCPanel, ProfileCompleteness})

ProfileEditPage ==
    Screen({}, {LeadsLate(UseAuth.useUpdateProfile, "/dashboard/profile")})

SecurityPage ==
    Screen({},
           { UseAuth.useChangePassword,
             Mutation("SecurityPage.disable2FA", AuthService.disable2FA, Everything) })

LoginHistoryPage ==
    Screen({UseAuth.useLoginHistory}, {})

ServicesListPage ==
    Screen({UseOrders.useOrders}, {})

ServiceDetailPage ==
    Screen({Query(<<"service", "id">>, OrderService.getById)}, {})

\* tickets/pages
TicketListPage ==
    Embed(Screen({UseTickets.useTickets}, {UseTickets.useBulkUpdateStatus}),
          {TicketListEnhanced})

TicketCreatePage ==
    Landing(TicketForm, "/dashboard/tickets")

TicketDetailPage ==
    Embed(Screen({ UseTickets.useTicket,
                   Query(<<"ticket-replies", "id">>, TicketServiceDetails.getReplies) },
                 {}),
          {TicketDetail, TicketReplyForm, WatcherManager})

\* orders/pages
OrdersListPage ==
    OrderList

OrderCreatePage ==
    OrderForm

OrderEditPage ==
    OrderForm

OrderStatusPage ==
    OrderStatus

OrderDetailPage ==
    OrderDetail

\* invoices/pages
InvoiceListPage ==
    Screen({UseInvoices.useInvoices},
           { Refetching("InvoiceListPage.send", InvoiceService.send,
                        {UseInvoices.useInvoices.key}),
             Refetching("InvoiceListPage.cancel", InvoiceService.cancel,
                        {UseInvoices.useInvoices.key}) })

InvoiceCreatePage ==
    Embed(Screen({}, {Leads(UseInvoices.useCreateInvoice, "/dashboard/invoices")}),
          {InvoiceForm})

InvoiceDetailPage ==
    Embed(Screen({UseInvoices.useInvoice}, {}), {InvoiceDetail})

InvoiceEditPage ==
    Embed(Screen({UseInvoices.useInvoice},
                 {Leads(UseInvoices.useUpdateInvoice, "/dashboard/invoices/:id")}),
          {InvoiceForm})

\* hosting/pages
VPSPlansPage ==
    Screen({UseVPSPlans.useVPSPlans},
           {LeadsLate(UseVPSSubscriptions.useRequestVPS, "/dashboard/vps/subscriptions")})

MyVPSPage ==
    Screen({UseVPSSubscriptions.useMyVPSSubscriptions}, {})

VPSInstancePage ==
    Embed(Screen({ UseVPSSubscriptions.useVPSSubscription,
                   UseVPSStats.useVPSStats,
                   UseVPSStats.useVPSTimeline,
                   UseVPSPlans.useVPSPlans },
                 { UseVPSControl.useStartContainer,
                   UseVPSControl.useStopContainer,
                   UseVPSControl.useRebootContainer,
                   UseVPSSubscriptions.useUpgradeSubscription,
                   LeadsLate(UseVPSSubscriptions.useCancelSubscription,
                             "/dashboard/vps/subscriptions") }),
          {ConnectionInfoPanel, DockerInfo, ServiceDomainsPanel, VPSDeploy})

CustomImagesPage ==
    Screen({UseCustomImages.useCustomImages}, {UseCustomImages.useDeleteCustomImage})

ImageUploadPage ==
    LandingNew(ImageUploadForm)

CustomImageDetailPage ==
    Screen({Watching(UseCustomImages.useCustomImage), UseCustomImages.useImageBuildLogs},
           { UseCustomImages.useRebuildCustomImage,
             Leads(UseCustomImages.useDeleteCustomImage, "/dashboard/vps/custom-images") })

\* dns/pages/client
MyDNSZonesPage ==
    Embed(Screen({UseDNSZones.useDNSZones}, {UseDNSZones.useCreateDNSZone}), {DNSZoneForm})

DNSZoneDetailPage ==
    Embed(Screen({ UseDNSZones.useDNSZone,
                   UseDNSRecords.useDNSRecords,
                   UseVPSSubscriptions.useVPSSubscription,
                   UseContainers.useSubscriptionContainers },
                 { UseDNSRecords.useCreateDNSRecord,
                   Leads(UseDNSZones.useDeleteDNSZone, "/dashboard/dns/zones") }),
          {DNSRecordsTable})

\* dashboard/pages
SettingsPage ==
    Embed(Screen({Query(<<"customers", "me">>, CustomerService.getMyCustomer)}, {}),
          {KYCPanel})

NotificationsPage ==
    Screen({UseNotifications.useNotifications, UseNotifications.useUnreadNotificationCount},
           { AndRefetch(UseNotifications.useMarkNotificationRead,
                        {UseNotifications.useNotifications.key}) })

CorporateDashboardPage ==
    Screen({ UseDashboard.useCorporateDashboard,
             Query(<<"revenue", "overview", "month">>, RevenueService.getOverview) },
           {})

\* corporate/pages/customers
CorporateCustomerCreatePage ==
    Landing(CustomerForm, "/corporate/customers")

CorporateCustomerEditPage ==
    Landing(CustomerForm, "/corporate/customers/:id")

CorporateCustomerKYCPage ==
    Embed(Screen({ UseCustomers.useCustomer,
                   UseKYC.useCustomerKYCStatus,
                   UseKYC.useKYCDocuments },
                 {UseKYC.useVerifyKYCDocument}),
          {KYCPanel})

CustomerNotesPage ==
    Screen({ UseCustomers.useCustomer,
             Query(<<"customer-notes", "id">>, CustomersApiNotes.getNotes) },
           { Mutation("CustomerNotesPage.createNote", CustomersApiNotes.createNote,
                      {<<"customer-notes", "id">>}),
             Mutation("CustomerNotesPage.updateNote", CustomersApiNotes.updateNote,
                      {<<"customer-notes", "id">>}),
             Mutation("CustomerNotesPage.deleteNote", CustomersApiNotes.deleteNote,
                      {<<"customer-notes", "id">>}) })

CustomerDocumentsPage ==
    Screen({ UseCustomers.useCustomer,
             Query(<<"customer-documents", "id">>, CustomersApiDocuments.getDocuments) },
           { Mutation("CustomerDocumentsPage.uploadDocument",
                      CustomersApiDocuments.uploadDocument,
                      {<<"customer-documents", "id">>}),
             Mutation("CustomerDocumentsPage.updateDocument",
                      CustomersApiDocuments.updateDocument,
                      {<<"customer-documents", "id">>}),
             Mutation("CustomerDocumentsPage.deleteDocument",
                      CustomersApiDocuments.deleteDocument,
                      {<<"customer-documents", "id">>}),
             Mutation("CustomerDocumentsPage.downloadDocument",
                      CustomersApiDocuments.downloadDocument, {}) })

\* corporate/pages/tickets
CorporateTicketListPage ==
    Screen({UseTickets.useTickets}, {})

CorporateTicketDetailPage ==
    Embed(Screen({ UseTickets.useTicket,
                   Query(<<"ticket-replies", "id">>, TicketServiceDetails.getReplies) },
                 {}),
          {TicketDetail, TicketReplyForm, WatcherManager})

TicketTransferPage ==
    Screen({UseTickets.useTicket, UseUsers.useUsers},
           { LeadsLate(Mutation("TicketTransferPage.transfer", Missing,
                                {<<"ticket", "id">>}),
                       "/corporate/tickets/:id") })

CorporateTemplateListPage ==
    TemplateList

\* tickets/pages
TemplateCreatePage ==
    Embed(Blank, {LandingNew(TemplateForm.create), TemplateForm.preview})

TemplateDetailPage ==
    TemplateDetail

TemplateEditPage ==
    Embed(Screen({UseTemplates.useTemplate}, {}),
          {Landing(TemplateForm.edit, "/admin/tickets/templates/:id"), TemplateForm.preview})

\* corporate/pages/products
CorporateProductListPage ==
    Screen({Query(<<"corporate-products", "p", "p", "p", "p", "p">>, Reads({"products"}))},
           {})

CorporateProductFormPage ==
    Screen({ Query(<<"product-categories">>, Reads({"productCategories"})),
             Query(<<"product", "id">>, Reads({"products"})) },
           { LeadsLate(Mutation("ProductFormPage.mutation", Writes({"products"}), {}),
                       "/corporate/products") })

CorporateCategoryManagementPage ==
    Screen({Query(<<"product-categories">>, Reads({"productCategories"}))},
           { Mutation("CategoryManagementPage.save", Writes({"productCategories"}),
                      {<<"product-categories">>}),
             Mutation("CategoryManagementPage.delete", Writes({"productCategories"}),
                      {<<"product-categories">>}) })

\* corporate/pages/quotes
QuoteListPage ==
    Screen({Query(<<"corporate-quotes", "p", "p", "p">>, QuotesApi.getQuotes)}, {})

QuoteCreatePage ==
    Screen({Query(<<"corporate-customers-list">>, CustomersApi.getCustomers)},
           { LeadsNew(Mutation("QuoteCreatePage.create", QuotesApi.createQuote,
                               {<<"corporate-quotes">>})) })

QuoteDetailPage ==
    Screen({ Query(<<"corporate-quote", "id">>, QuotesApi.getQuote),
             Query(<<"corporate-quote-timeline", "id">>, QuotesApi.getQuoteTimeline) },
           {})

QuoteApprovePage ==
    Screen({Query(<<"corporate-quote", "id">>, QuotesApi.getQuote)},
           { LeadsLate(Mutation("QuoteApprovePage.approve", QuotesApi.approveQuote,
                                {<<"corporate-quotes">>, <<"corporate-quote", "id">>}),
                       "/corporate/quotes/:id") })

QuoteConvertPage ==
    Screen({Query(<<"corporate-quote", "id">>, QuotesApi.getQuote)},
           { LeadsNew(Mutation("QuoteConvertPage.convert", InvoicesApi.convertFromQuote,
                               {<<"corporate-quotes">>, <<"invoices">>})) })

\* corporate/pages/invoices
CorporateInvoiceListPage ==
    Screen({UseInvoices.useInvoices},
           { Refetching("InvoiceListPage.send", InvoiceService.send,
                        {UseInvoices.useInvoices.key}),
             Refetching("InvoiceListPage.cancel", InvoiceService.cancel,
                        {UseInvoices.useInvoices.key}) })

CorporateInvoiceCreatePage ==
    Embed(Screen({}, {Leads(UseInvoices.useCreateInvoice, "/corporate/invoices")}),
          {InvoiceForm})

CorporateInvoiceDetailPage ==
    Embed(Screen({UseInvoices.useInvoice}, {}), {InvoiceDetail})

CorporateInvoiceEditPage ==
    Embed(Screen({UseInvoices.useInvoice},
                 {Leads(UseInvoices.useUpdateInvoice, "/corporate/invoices/:id")}),
          {InvoiceForm})

InvoiceSendPage ==
    Screen({Query(<<"invoices", "id">>, InvoicesApi.getInvoice)},
           { LeadsLate(Mutation("InvoiceSendPage.send", InvoicesApi.sendInvoice,
                                {<<"invoices">>, <<"invoices", "id">>}),
                       "/corporate/invoices/:id") })

InvoicePaymentPage ==
    Screen({Query(<<"invoices", "id">>, InvoicesApi.getInvoice)},
           { LeadsLate(Mutation("InvoicePaymentPage.payment", InvoicesApi.recordPayment,
                                {<<"invoices">>, <<"invoices", "id">>}),
                       "/corporate/invoices/:id") })

\* reports/pages
CustomerReportsPage ==
    Embed(Screen({ ReportsUseReports.useCustomersByStatus,
                   ReportsUseReports.useCustomersByType,
                   ReportsUseReports.useCustomerGrowth },
                 {}),
          {ExportButton})

TicketReportsPage ==
    Embed(Screen({ ReportsUseReports.useTicketsByStatus,
                   ReportsUseReports.useTicketsByPriority,
                   ReportsUseReports.useTicketsByAgent,
                   ReportsUseReports.useResponseTimeMetrics,
                   ReportsUseReports.useResolutionTimeMetrics },
                 {}),
          {ExportButton})

OrderReportsPage ==
    Embed(Screen({ ReportsUseReports.useOrdersByStatus,
                   ReportsUseReports.useOrderValueMetrics,
                   ReportsUseReports2.useMonthlyOrders,
                   ReportsUseReports2.useProductPerformance },
                 {}),
          {ExportButton})

\* revenue/pages
RevenueDashboardPage ==
    Screen({ Query(<<"revenue", "overview", "p">>, RevenueService.getOverview),
             Query(<<"revenue", "trends", "p">>, RevenueService.getTrends),
             Query(<<"revenue", "by-category", "p">>, RevenueService.getByCategory),
             Query(<<"revenue", "by-customer", "p">>, RevenueService.getByCustomer) },
           {})

\* dns/pages/corporate
CustomerDNSZonesPage ==
    Screen({UseDNSZones2.useAllDNSZones}, {})

DNSOverviewPage ==
    Screen({UseDNSStatistics.useDNSStatistics, UseDNSZones2.useAllDNSZones}, {})

\* dashboard/pages
AdminDashboardPage ==
    Screen({ UseSystem.useSystemOverview,
             UseSystem.useSystemHealth,
             UseSystem.useSystemStats,
             UseSystem.useDetailedHealth,
             UseSystem.useRecentActivity,
             UseSystem.useUsersByRole,
             Query(<<"revenue", "overview", "month">>, RevenueService.getOverview),
             Query(<<"reports", "dashboard", "admin">>, Reads({"figures"})) },
           {})

\* tickets/pages
TemplateListPage ==
    TemplateList

EmailAccountsPage ==
    Screen({UseEmailAccounts.useEmailAccounts},
           { UseEmailAccounts.useCreateEmailAccount,
             UseEmailAccounts.useUpdateEmailAccount,
             UseEmailAccounts.useDeleteEmailAccount,
             UseEmailAccounts.useTestEmailConnection,
             UseEmailAccounts.useSyncEmailAccount })

\* dns/pages/admin
AllDNSZonesPage ==
    Screen({UseDNSZones2.useAllDNSZones},
           { UseDNSZones2.useActivateDNSZone,
             UseDNSZones2.useSuspendDNSZone,
             UseDNSAdmin.useCreateSystemZone })

AdminDNSZoneDetailPage ==
    Embed(Screen({UseDNSZones2.useAdminDNSZone, UseDNSRecords.useDNSRecords},
                 { UseDNSRecords.useCreateDNSRecord,
                   Leads(UseDNSZones.useDeleteDNSZone, "/admin/dns/zones"),
                   UseDNSZones2.useActivateDNSZone,
                   UseDNSZones2.useSuspendDNSZone }),
          {DNSRecordsTable})

DNSMonitoringPage ==
    Screen({ UseDNSAdmin.useCoreDNSStatus,
             UseDNSAdmin.useDNSSyncLogs,
             UseDNSStatistics.useDNSStatistics },
           {UseDNSAdmin.useReloadCoreDNS, UseDNSAdmin.useRegenerateCoreDNSConfig})

DNSTemplatesPage ==
    Screen({UseDNSTemplates.useAdminDNSTemplates}, {UseDNSTemplates2.useDeleteDNSTemplate})

=============================================================================
