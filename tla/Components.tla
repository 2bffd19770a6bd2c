----------------------------- MODULE Components ------------------------------
(***************************************************************************)
(* The parts pages are built from: the layouts every dashboard page is     *)
(* shown in, and the forms, lists and panels that query and change the     *)
(* server's data themselves. A component is the queries it mounts and the  *)
(* operations it offers; one that shows only what it is handed has no      *)
(* definition.                                                             *)
(***************************************************************************)
EXTENDS Hooks

\* shared/components
NotificationDropdown ==
    Screen({UseNotifications.useNotifications, UseNotifications.useUnreadNotificationCount},
           {UseNotifications.useMarkNotificationRead})

\* layouts
AdminDashboardLayout ==
    Embed(Screen({}, {UseAuth.useLogout}), {NotificationDropdown})

CorporateDashboardLayout ==
    Embed(Screen({}, {UseAuth.useLogout}), {NotificationDropdown})

UserDashboardLayout ==
    Embed(Screen({ UseKYC.useCustomerKYCStatus,
                   Query(<<"customers", "me">>, CustomerService.getMyCustomer) },
                 {UseAuth.useLogout}),
          {NotificationDropdown})

\* auth/components
LoginForm ==
    Screen({}, {UseAuth.useLogin, UseAuth.useCompleteLogin2FA})

LoginPageContent ==
    LoginForm

RegisterForm ==
    Screen({}, {UseAuth.useRegister})

RegisterPageContent ==
    RegisterForm

\* customers/components
KYCDocumentList ==
    Screen({UseKYC.useKYCDocuments},
           {UseKYC.useDeleteKYCDocument, UseKYC2.useDownloadKYCDocument})

KYCDocumentUpload ==
    Screen({}, {UseKYC.useUploadKYCDocument})

KYCDocumentVerification ==
    Screen({}, {UseKYC.useVerifyKYCDocument})

KYCPanel ==
    Embed(Screen({UseKYC.useCustomerKYCStatus}, {}),
          {KYCDocumentList, KYCDocumentUpload, KYCDocumentVerification})

ProfileCompleteness ==
    Screen({UseCustomers2.useProfileCompleteness}, {})

\* tickets/components
TicketListEnhanced ==
    Screen({UseTickets.useTickets}, {UseTickets.useBulkUpdateStatus})

TicketForm ==
    Screen({UseTickets.useTicketCategories}, {UseTickets.useCreateTicket})

TicketDetail ==
    Screen({UseTickets.useTicket, UseUsers.useUsers},
           { AndRefetch(UseTickets.useUpdateTicket, {UseTickets.useTicket.key}),
             Refetching("TicketDetail.assign", TicketServiceWork.assign,
                        {UseTickets.useTicket.key}) })

TicketReplyForm ==
    Screen({Query(<<"ticket-attachments", "id">>, TicketServiceDetails.getAttachments)},
           { Refetching("TicketReplyForm.createReply", TicketServiceDetails.createReply,
                        {UseTickets.useTicket.key}) })

WatcherManager ==
    Screen({UseWatchers.useWatchers, UseWatchers.useUsers},
           { UseWatchers.useWatchers_addWatcher,
             UseWatchers.useWatchers_removeWatcher,
             UseWatchers.useWatchers_updatePreferences })

\* orders/components
OrderList ==
    Screen({UseOrders.useOrders}, {})

OrderForm ==
    Screen({UseOrders.useOrder}, {UseOrders.useCreateOrder, UseOrders.useUpdateOrder})

OrderStatus ==
    Screen({UseOrders.useOrder}, {UseOrders.useUpdateOrderStatus})

OrderDetail ==
    Screen({UseOrders.useOrder, UseOrders.useOrderTimeline}, {UseOrders.useDeleteOrder})

\* invoices/components
InvoiceForm ==
    Screen({ Query(<<"customers", "p">>, CustomersApi.getCustomers),
             Query(<<"quotes", "accepted", "p">>, QuotesApi.getQuotes) },
           {})

PaymentRecordingForm ==
    Screen({},
           { Refetching("PaymentRecordingForm.recordPayment", InvoiceService.recordPayment,
                        {UseInvoices.useInvoice.key}) })

InvoiceDetail ==
    Embed(Screen({Query(<<"invoice-timeline", "id">>, InvoiceServiceReports.getTimeline)},
                 { Refetching("InvoiceDetail.send", InvoiceService.send,
                              {UseInvoices.useInvoice.key}),
                   Refetching("InvoiceDetail.cancel", InvoiceService.cancel,
                              {UseInvoices.useInvoice.key}) }),
          {PaymentRecordingForm})

\* hosting/components
ConnectionInfoPanel ==
    Screen({ Query(<<"vps", "credentials", "id">>,
                   VpsServiceInstances.getContainerCredentials) },
           {})

DockerInfo ==
    Screen({}, {UseExecCommand.useExecCommand})

ServiceDomainsPanel ==
    Screen({UseServiceDomains.useServiceDomains},
           { UseServiceDomains.useCreateCustomDomain,
             UseServiceDomains.useUpdateServiceDomain,
             UseServiceDomains.useDeleteServiceDomain,
             UseServiceDomains.useAutoDetectServices,
             UseServiceDomains2.useFixNginxConfiguration,
             UseServiceDomains2.useUpdateUrlsInContainerConfigs })

VPSDeploy ==
    Screen({},
           { Mutation("VPSDeploy.direct", Writes({"containerFiles"}), {}),
             Mutation("VPSDeploy.build", Writes({"containerFiles"}), {}),
             Mutation("VPSDeploy.installDocker", VpsServiceDocker.installDocker, {}) })

ImageUploadForm ==
    Screen({}, {UseCustomImages.useUploadCustomImage})

\* dns/components
DNSZoneForm ==
    Screen({UseVPSSubscriptions.useMyVPSSubscriptions}, {})

DNSRecordsTable ==
    Screen({}, {UseDNSRecords2.useUpdateDNSRecord, UseDNSRecords2.useDeleteDNSRecord})

\* customers/components
CustomerForm ==
    Screen({UseCustomers.useCustomer, UseUsers.useUsers},
           {UseCustomers.useCreateCustomer, UseCustomers.useUpdateCustomer})

\* tickets/components
TemplateList ==
    Screen({UseTemplates.useTemplates}, {UseTemplates.useDeleteTemplate})

TemplateForm ==
    [ create  |-> Screen({}, {UseTemplates.useCreateTemplate}),
      edit    |-> Screen({}, {UseTemplates.useUpdateTemplate}),
      preview |-> Screen({UseTemplates.useTemplateVariables},
                         {UseTemplates.usePreviewTemplate}) ]

TemplateDetail ==
    Screen({UseTemplates.useTemplate},
           {LeadsLate(UseTemplates.useDeleteTemplate, "/admin/tickets/templates")})

\* reports/components
ExportButton ==
    Screen({}, {ReportsUseReports2.useExportReport, ReportsUseReports2.useDownloadExport})

\* admin/components
PermissionMatrix ==
    Screen({UseRoles.usePermissions, UseRoles.useRoles}, {})

CreateUserDialog ==
    Screen({}, {UseUsers.useCreateUser})

SettingsPanel ==
    Screen({AdminUseSettings.useSettingsByCategory},
           {AdminUseSettings.useBatchUpdateSettings, AdminUseSettings.useResetSetting})

\* customers/components
ApprovalWorkflow ==
    Screen({UseCustomers.useCustomer},
           { UseCustomers.useSubmitForApproval,
             UseCustomers.useApproveCustomer,
             UseCustomers2.useRejectCustomer })

CustomerDetail ==
    Screen({UseCustomers.useCustomer},
           { UseCustomers.useActivateCustomer,
             UseCustomers.useSuspendCustomer,
             UseCustomers.useDeleteCustomer })

StatusHistory ==
    Screen({UseCustomers2.useStatusHistory}, {})

StatusTransition ==
    Screen({UseCustomers.useCustomer},
           {UseCustomers.useActivateCustomer, UseCustomers.useSuspendCustomer})

=============================================================================
