------------------------------- MODULE Screens -------------------------------
(***************************************************************************)
(* The route table: which page each path shows, inside which layout. Pages *)
(* that neither query nor change anything are left out, and stand together *)
(* as the screen "elsewhere" of QueryCache.                                *)
(***************************************************************************)
EXTENDS Pages, TLC

PublicScreens ==
       "/login" :> LoginPage
    @@ "/register" :> RegisterPage
    @@ "/products/:id" :> ProductPage
    @@ "/catalog" :> CataloguePage
    @@ "/catalog/quote-request" :> QuoteRequestPage
    @@ "/catalog/:id" :> ProductPage

ClientScreens ==
    Under(UserDashboardLayout,
            "/dashboard" :> UserDashboardPage
         @@ "/dashboard/profile" :> ProfilePage
         @@ "/dashboard/profile/edit" :> ProfileEditPage
         @@ "/dashboard/security" :> SecurityPage
         @@ "/dashboard/security/login-history" :> LoginHistoryPage
         @@ "/dashboard/services" :> ServicesListPage
         @@ "/dashboard/services/:id" :> ServiceDetailPage
         @@ "/dashboard/tickets" :> TicketListPage
         @@ "/dashboard/tickets/new" :> TicketCreatePage
         @@ "/dashboard/tickets/:id" :> TicketDetailPage
         @@ "/dashboard/catalog" :> CataloguePage
         @@ "/dashboard/catalog/:id" :> ProductPage
         @@ "/dashboard/catalog/quote-request" :> QuoteRequestPage
         @@ "/dashboard/orders" :> OrdersListPage
         @@ "/dashboard/orders/create" :> Landing(OrderCreatePage, "/dashboard/orders")
         @@ "/dashboard/orders/:orderId/edit" :>
                Landing(OrderEditPage, "/dashboard/orders")
         @@ "/dashboard/orders/:orderId/status" :>
                Landing(OrderStatusPage, "/dashboard/orders/:orderId")
         @@ "/dashboard/orders/:orderId" :>
                Landing(OrderDetailPage, "/dashboard/orders")
         @@ "/dashboard/invoices" :> InvoiceListPage
         @@ "/dashboard/invoices/create" :> InvoiceCreatePage
         @@ "/dashboard/invoices/:id" :> InvoiceDetailPage
         @@ "/dashboard/invoices/:id/edit" :> InvoiceEditPage
         @@ "/dashboard/vps/plans" :> VPSPlansPage
         @@ "/dashboard/vps/subscriptions" :> MyVPSPage
         @@ "/dashboard/vps/subscriptions/:id" :> VPSInstancePage
         @@ "/dashboard/vps/custom-images" :> CustomImagesPage
         @@ "/dashboard/vps/custom-images/upload" :> ImageUploadPage
         @@ "/dashboard/vps/custom-images/:imageId" :> CustomImageDetailPage
         @@ "/dashboard/dns/zones" :> MyDNSZonesPage
         @@ "/dashboard/dns/zones/:zoneId" :> DNSZoneDetailPage
         @@ "/dashboard/settings" :> SettingsPage
         @@ "/dashboard/notifications" :> NotificationsPage)

CorporateScreens ==
    Under(CorporateDashboardLayout,
            "/corporate" :> CorporateDashboardPage
         @@ "/corporate/profile" :> ProfilePage
         @@ "/corporate/profile/edit" :> ProfileEditPage
         @@ "/corporate/security" :> SecurityPage
         @@ "/corporate/security/login-history" :> LoginHistoryPage
         @@ "/corporate/customers/new" :> CorporateCustomerCreatePage
         @@ "/corporate/customers/:id/edit" :> CorporateCustomerEditPage
         @@ "/corporate/customers/:id/kyc" :> CorporateCustomerKYCPage
         @@ "/corporate/customers/:id/notes" :> CustomerNotesPage
         @@ "/corporate/customers/:id/documents" :> CustomerDocumentsPage
         @@ "/corporate/tickets" :> CorporateTicketListPage
         @@ "/corporate/tickets/:id" :> CorporateTicketDetailPage
         @@ "/corporate/tickets/:id/transfer" :> TicketTransferPage
         @@ "/corporate/tickets/templates" :> CorporateTemplateListPage
         @@ "/corporate/tickets/templates/create" :> TemplateCreatePage
         @@ "/corporate/tickets/templates/:id" :> TemplateDetailPage
         @@ "/corporate/tickets/templates/:id/edit" :> TemplateEditPage
         @@ "/corporate/products" :> CorporateProductListPage
         @@ "/corporate/products/new" :> CorporateProductFormPage
         @@ "/corporate/products/:productId/edit" :> CorporateProductFormPage
         @@ "/corporate/products/categories" :> CorporateCategoryManagementPage
         @@ "/corporate/orders" :> OrdersListPage
         @@ "/corporate/orders/create" :> Landing(OrderCreatePage, "/corporate/orders")
         @@ "/corporate/orders/:orderId/edit" :>
                Landing(OrderEditPage, "/corporate/orders")
         @@ "/corporate/orders/:orderId/status" :>
                Landing(OrderStatusPage, "/corporate/orders/:orderId")
         @@ "/corporate/orders/:orderId" :>
                Landing(OrderDetailPage, "/corporate/orders"))

CorporateBackOffice ==
    Under(CorporateDashboardLayout,
            "/corporate/quotes" :> QuoteListPage
         @@ "/corporate/quotes/new" :> QuoteCreatePage
         @@ "/corporate/quotes/:id" :> QuoteDetailPage
         @@ "/corporate/quotes/:id/approve" :> QuoteApprovePage
         @@ "/corporate/quotes/:id/convert" :> QuoteConvertPage
         @@ "/corporate/invoices" :> CorporateInvoiceListPage
         @@ "/corporate/invoices/new" :> CorporateInvoiceCreatePage
         @@ "/corporate/invoices/:id" :> CorporateInvoiceDetailPage
         @@ "/corporate/invoices/:id/edit" :> CorporateInvoiceEditPage
         @@ "/corporate/invoices/:id/send" :> InvoiceSendPage
         @@ "/corporate/invoices/:id/payment" :> InvoicePaymentPage
         @@ "/corporate/reports/customers" :> CustomerReportsPage
         @@ "/corporate/reports/tickets" :> TicketReportsPage
         @@ "/corporate/reports/orders" :> OrderReportsPage
         @@ "/corporate/reports/revenue" :> RevenueDashboardPage
         @@ "/corporate/hosting/requests" :> PendingVPSRequestsPage
         @@ "/corporate/hosting/subscriptions" :> AllVPSSubscriptionsPage
         @@ "/corporate/hosting/subscriptions/:id" :> AdminVPSSubscriptionDetailPage
         @@ "/corporate/hosting/monitoring" :> VPSMonitoringPage
         @@ "/corporate/hosting/custom-images" :> AdminCustomImagesPage
         @@ "/corporate/hosting/plans" :> VPSPlansAdminPage
         @@ "/corporate/dns/zones" :> CustomerDNSZonesPage
         @@ "/corporate/dns/overview" :> DNSOverviewPage
         @@ "/corporate/settings" :> GeneralSettingsPage
         @@ "/corporate/settings/general" :> GeneralSettingsPage
         @@ "/corporate/settings/roles" :> RoleManagementPage
         @@ "/corporate/settings/users" :> UserManagementPage
         @@ "/corporate/settings/system" :> SystemSettingsPage
         @@ "/corporate/settings/permissions" :> PermissionListPage
         @@ "/corporate/notifications" :> NotificationsPage
         @@ "/corporate/settings/templates" :> EmailTemplatesPage)

AdminScreens ==
    Under(AdminDashboardLayout,
            "/admin" :> AdminDashboardPage
         @@ "/admin/profile" :> ProfilePage
         @@ "/admin/profile/edit" :> ProfileEditPage
         @@ "/admin/security" :> SecurityPage
         @@ "/admin/security/login-history" :> LoginHistoryPage
         @@ "/admin/overview" :> SystemOverviewPage
         @@ "/admin/overview/health" :> SystemHealthPage
         @@ "/admin/overview/performance" :> PerformanceMetricsPage
         @@ "/admin/overview/alerts" :> SystemAlertsPage
         @@ "/admin/users" :> UserManagementPage
         @@ "/admin/users/new" :> UserCreatePage
         @@ "/admin/users/:id" :> UserDetailsPage
         @@ "/admin/users/:id/edit" :> UserEditPage
         @@ "/admin/users/:id/roles" :> UserRolesPage
         @@ "/admin/users/:id/sessions" :> UserSessionsPage
         @@ "/admin/users/:id/activity" :> UserActivityPage
         @@ "/admin/roles" :> RoleManagementPage
         @@ "/admin/roles/new" :> RoleCreatePage
         @@ "/admin/roles/:id" :> RoleDetailsPage
         @@ "/admin/roles/:id/edit" :> RoleEditPage
         @@ "/admin/roles/:id/permissions" :> RolePermissionsPage
         @@ "/admin/permissions" :> PermissionListPage
         @@ "/admin/products" :> AdminProductListPage
         @@ "/admin/products/new" :> AdminProductFormPage
         @@ "/admin/products/:productId/edit" :> AdminProductFormPage
         @@ "/admin/products/categories" :> AdminCategoryManagementPage)

AdminSettings ==
    Under(AdminDashboardLayout,
            "/admin/settings" :> SystemSettingsPage
         @@ "/admin/settings/general" :> GeneralSettingsPage
         @@ "/admin/settings/security" :> SecuritySettingsPage
         @@ "/admin/settings/email" :> EmailConfigPage
         @@ "/admin/settings/email/templates" :> EmailTemplatesPage
         @@ "/admin/settings/email/history" :> EmailSendHistoryPage
         @@ "/admin/settings/email/bounces" :> EmailBouncesPage
         @@ "/admin/settings/tickets" :> TicketSettingsPage
         @@ "/admin/settings/notifications/groups" :> NotificationGroupsPage
         @@ "/admin/notifications" :> NotificationsPage
         @@ "/admin/settings/sms" :> SMSConfigPage
         @@ "/admin/settings/storage" :> StorageConfigPage
         @@ "/admin/settings/backup" :> BackupSettingsPage
         @@ "/admin/logs" :> ActivityLogsPage
         @@ "/admin/logs/audit" :> AuditLogsPage
         @@ "/admin/logs/security" :> SecurityLogsPage
         @@ "/admin/logs/system" :> SystemLogsPage
         @@ "/admin/logs/users/:id" :> UserActivityLogsPage
         @@ "/admin/customers" :> CustomerManagementPage
         @@ "/admin/customers/create" :> AdminCustomerCreatePage
         @@ "/admin/customers/:id" :> AdminCustomerDetailsPage
         @@ "/admin/customers/:id/edit" :> AdminCustomerEditPage
         @@ "/admin/customers/:id/kyc" :> AdminCustomerKYCPage
         @@ "/admin/reports" :> ReportsPage
         @@ "/admin/reports/users" :> UserReportsPage
         @@ "/admin/reports/activity" :> ActivityReportsPage
         @@ "/admin/reports/security" :> SecurityReportsPage
         @@ "/admin/reports/performance" :> PerformanceReportsPage
         @@ "/admin/reports/revenue" :> RevenueDashboardPage
         @@ "/admin/support" :> SupportDashboardPage
         @@ "/admin/support/groups" :> SupportGroupsPage
         @@ "/admin/support/categories" :> AdminTicketCategoriesPage
         @@ "/admin/support/automation" :> AutomationRulesPage)

AdminBackOffice ==
    Under(AdminDashboardLayout,
            "/admin/tickets" :> TicketsPage
         @@ "/admin/tickets/:id" :> TicketDetailPage
         @@ "/admin/orders" :> OrdersListPage
         @@ "/admin/orders/create" :> Landing(OrderCreatePage, "/admin/orders")
         @@ "/admin/orders/:orderId/edit" :> Landing(OrderEditPage, "/admin/orders")
         @@ "/admin/orders/:orderId/status" :>
                Landing(OrderStatusPage, "/admin/orders/:orderId")
         @@ "/admin/orders/:orderId" :> Landing(OrderDetailPage, "/admin/orders")
         @@ "/admin/tickets/templates" :> TemplateListPage
         @@ "/admin/tickets/templates/create" :> TemplateCreatePage
         @@ "/admin/tickets/templates/:id" :> TemplateDetailPage
         @@ "/admin/tickets/templates/:id/edit" :> TemplateEditPage
         @@ "/admin/tickets/email-accounts" :> EmailAccountsPage
         @@ "/admin/maintenance" :> MaintenanceDashboardPage
         @@ "/admin/maintenance/backup" :> BackupManagementPage
         @@ "/admin/maintenance/cache" :> CacheManagementPage
         @@ "/admin/maintenance/cleanup" :> DataCleanupPage
         @@ "/admin/maintenance/migrations" :> MigrationsPage
         @@ "/admin/hosting/requests" :> PendingVPSRequestsPage
         @@ "/admin/hosting/subscriptions" :> AllVPSSubscriptionsPage
         @@ "/admin/hosting/subscriptions/:id" :> AdminVPSSubscriptionDetailPage
         @@ "/admin/hosting/monitoring" :> VPSMonitoringPage
         @@ "/admin/hosting/custom-images" :> AdminCustomImagesPage
         @@ "/admin/hosting/plans" :> VPSPlansAdminPage
         @@ "/admin/dns/zones" :> AllDNSZonesPage
         @@ "/admin/dns/zones/:zoneId" :> AdminDNSZoneDetailPage
         @@ "/admin/dns/monitoring" :> DNSMonitoringPage
         @@ "/admin/dns/templates" :> DNSTemplatesPage
         @@ "/admin/invoices" :> InvoiceListPage
         @@ "/admin/invoices/create" :> InvoiceCreatePage
         @@ "/admin/invoices/:id" :> InvoiceDetailPage
         @@ "/admin/invoices/:id/edit" :> InvoiceEditPage
         @@ "/admin/quotes" :> QuoteListPage
         @@ "/admin/quotes/new" :> QuoteCreatePage
         @@ "/admin/quotes/:id" :> QuoteDetailPage)

AllScreens ==
    PublicScreens
    @@ ClientScreens
    @@ CorporateScreens
    @@ CorporateBackOffice
    @@ AdminScreens
    @@ AdminSettings
    @@ AdminBackOffice

=============================================================================
