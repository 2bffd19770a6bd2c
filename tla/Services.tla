------------------------------ MODULE Services -------------------------------
(***************************************************************************)
(* What every call of the service layer asks of the server: one definition *)
(* per service object of the front end (or part of one), one field per     *)
(* method. A method is a sequence of requests; a service that wraps an     *)
(* object of shared/api is a record of that object's methods.              *)
(*                                                                         *)
(* Resources are the collections the server keeps. What a request reads    *)
(* and writes is taken from its path and verb, as the pages use it;        *)
(* reports and audit trails, which follow everything, are resources that   *)
(* no request writes.                                                      *)
(***************************************************************************)
EXTENDS DataFlow

\* shared/api/auth.ts
AuthApi ==
    [ register |-> Writes({"registrations"}),
      login |-> Writes({"sessions"}),
      refreshToken |-> Writes({"sessions"}),
      enable2FA |-> Writes({"users"}),
      completeLogin2FA |-> Writes({"sessions"}),
      verify2FA |-> Writes({"users"}),
      disable2FA |-> Writes({"users"}) ]

AuthApiTwoFactor ==
    [ setupRequired2FA |-> Writes({"users"}),
      verifySetupRequired2FA |-> Writes({"users"}),
      check2FARequirement |-> Reads({"users"}),
      requestPasswordReset |-> Writes({"users"}),
      confirmPasswordReset |-> Writes({"users"}) ]

AuthApiAccount ==
    [ getSessions |-> Reads({"sessions"}),
      deleteSession |-> Writes({"sessions"}),
      getSecurityActivity |-> Reads({"audit"}),
      getLoginHistory |-> Reads({"audit"}),
      updateProfile |-> Writes({"users"}),
      changePassword |-> Writes({"users"}) ]

\* shared/api/customers.ts
CustomersApi ==
    [ getCustomers |-> Reads({"customers"}),
      getCustomer |-> Reads({"customers"}),
      getMyCustomer |-> Reads({"customers"}),
      createCustomer |-> Writes({"customers"}),
      updateCustomer |-> Writes({"customers"}),
      deleteCustomer |-> Writes({"customers"}),
      getStatistics |-> Reads({"customers"}),
      activateCustomer |-> Writes({"customers"}),
      suspendCustomer |-> Writes({"customers"}),
      changeStatus |-> Writes({"customers"}) ]

CustomersApiApproval ==
    [ submitForApproval |-> Writes({"customers"}),
      approveCustomer |-> Writes({"customers"}),
      rejectCustomer |-> Writes({"customers"}),
      getStatusHistory |-> Reads({"customers"}),
      getProfileCompleteness |-> Reads({"customers"}),
      getMissingFields |-> Reads({"customers"}) ]

CustomersApiKyc ==
    [ getKYCStatus |-> Reads({"kyc"}),
      getKYCSummary |-> Reads({"kyc"}),
      getKYCDocuments |-> Reads({"kyc"}),
      getKYCDocument |-> Reads({"kyc"}),
      uploadKYCDocument |-> Writes({"kyc"}),
      updateKYCDocument |-> Writes({"kyc"}),
      deleteKYCDocument |-> Writes({"kyc"}),
      verifyKYCDocument |-> Writes({"kyc"}),
      downloadKYCDocument |-> Reads({"kyc"}) ]

CustomersApiNotes ==
    [ getNotes |-> Reads({"customerNotes"}),
      createNote |-> Writes({"customerNotes"}),
      updateNote |-> Writes({"customerNotes"}),
      deleteNote |-> Writes({"customerNotes"}) ]

CustomersApiDocuments ==
    [ getDocuments |-> Reads({"customerDocuments"}),
      uploadDocument |-> Writes({"customerDocuments"}),
      updateDocument |-> Writes({"customerDocuments"}),
      deleteDocument |-> Writes({"customerDocuments"}),
      downloadDocument |-> Reads({"customerDocuments"}) ]

\* shared/api/invoices.ts
InvoicesApi ==
    [ getInvoices |-> Reads({"invoices"}),
      getInvoice |-> Reads({"invoices"}),
      createInvoice |-> Writes({"invoices"}),
      updateInvoice |-> Writes({"invoices"}),
      deleteInvoice |-> Writes({"invoices"}),
      issueInvoice |-> Writes({"invoices"}),
      sendInvoice |-> Writes({"invoices"}),
      recordPayment |-> Writes({"invoices"}),
      cancelInvoice |-> Writes({"invoices"}),
      convertFromQuote |-> Writes({"invoices", "quotes"}),
      getInvoiceTimeline |-> Reads({"invoices"}),
      getInvoicePDF |-> Reads({"invoices"}),
      getInvoiceStatistics |-> Reads({"invoices"}),
      updateOverdueInvoices |-> Writes({"invoices"}) ]

\* shared/api/notifications.ts
NotificationsApi ==
    [ getNotifications |-> Reads({"notifications"}),
      getUnreadCount |-> Reads({"notifications"}),
      markRead |-> Writes({"notifications"}),
      getStreamUrl |-> Nothing ]

\* shared/api/orders.ts
OrdersApi ==
    [ getOrders |-> Reads({"orders"}),
      getOrder |-> Reads({"orders"}),
      createOrder |-> Writes({"orders"}),
      updateOrder |-> Writes({"orders"}),
      deleteOrder |-> Writes({"orders"}),
      updateOrderStatus |-> Writes({"orders"}),
      getOrderTimeline |-> Reads({"orders"}),
      getCustomerOrders |-> Reads({"orders"}) ]

\* shared/api/quotes.ts
QuotesApi ==
    [ getQuotes |-> Reads({"quotes"}),
      getQuote |-> Reads({"quotes"}),
      createQuote |-> Writes({"quotes"}),
      updateQuote |-> Writes({"quotes"}),
      deleteQuote |-> Writes({"quotes"}),
      submitForApproval |-> Writes({"quotes"}),
      approveQuote |-> Writes({"quotes"}),
      sendQuote |-> Writes({"quotes"}),
      acceptQuote |-> Writes({"quotes"}),
      declineQuote |-> Writes({"quotes"}),
      createQuoteVersion |-> Writes({"quotes"}),
      getQuoteVersions |-> Reads({"quotes"}),
      getQuoteTimeline |-> Reads({"quotes"}),
      getQuotePDF |-> Reads({"quotes"}),
      expireOldQuotes |-> Writes({"quotes"}) ]

\* shared/api/settings.ts
SettingsApi ==
    [ getPermissions |-> Reads({"permissions"}),
      getPermission |-> Reads({"permissions"}),
      createPermission |-> Writes({"permissions"}),
      updatePermission |-> Writes({"permissions"}),
      deletePermission |-> Writes({"permissions"}),
      getPermissionCategories |-> Reads({"permissions"}),
      getRoles |-> Reads({"roles"}),
      getRole |-> Reads({"roles"}),
      createRole |-> Writes({"roles"}),
      updateRole |-> Writes({"roles"}),
      deleteRole |-> Writes({"roles"}),
      getRolePermissions |-> Reads({"roles"}),
      updateRolePermissions |-> Writes({"roles"}) ]

\* shared/api/tickets.ts
TicketsApi ==
    [ getTickets |-> Reads({"tickets"}),
      getMyTickets |-> Reads({"tickets"}),
      getTicket |-> Reads({"tickets"}),
      createTicket |-> Writes({"tickets"}),
      updateTicket |-> Writes({"tickets"}),
      deleteTicket |-> Writes({"tickets"}),
      assignTicket |-> Writes({"tickets"}),
      updateStatus |-> Writes({"tickets"}),
      closeTicket |-> Writes({"tickets"}),
      transferTicket |-> Writes({"tickets"}) ]

TicketsApiReplies ==
    [ getReplies |-> Reads({"replies"}),
      createReply |-> Writes({"replies"}),
      updateReply |-> Writes({"replies"}),
      deleteReply |-> Writes({"replies"}),
      getCategories |-> Reads({"ticketCategories"}) ]

TicketsApiTags ==
    [ getTags |-> Reads({"tags"}),
      createTag |-> Writes({"tags"}),
      updateTag |-> Writes({"tags"}),
      deleteTag |-> Writes({"tags"}),
      getTagStatistics |-> Reads({"tags"}),
      getTicketTags |-> Reads({"ticketTags"}),
      addTicketTag |-> Writes({"ticketTags"}),
      removeTicketTag |-> Writes({"ticketTags"}) ]

TicketsApiWatchers ==
    [ getWatchers |-> Reads({"watchers"}),
      addWatcher |-> Writes({"watchers"}),
      removeWatcher |-> Writes({"watchers"}),
      isWatching |-> Reads({"watchers"}),
      updateWatcherPreferences |-> Writes({"watchers"}),
      getWatcherStatistics |-> Reads({"watchers"}) ]

TicketsApiSla ==
    [ getSLAMetrics |-> Reads({"sla"}),
      getOverallSLAMetrics |-> Reads({"sla"}),
      getDailySLAMetrics |-> Reads({"sla"}),
      getAgentSLAMetrics |-> Reads({"sla"}),
      getActiveSLABreaches |-> Reads({"sla"}),
      getAttachments |-> Reads({"attachments"}),
      downloadAttachment |-> Reads({"attachments"}) ]

TicketsApiEmail ==
    [ getEmailAccounts |-> Reads({"emailAccounts"}),
      createEmailAccount |-> Writes({"emailAccounts"}),
      updateEmailAccount |-> Writes({"emailAccounts"}),
      deleteEmailAccount |-> Writes({"emailAccounts"}),
      testEmailConnection |-> Nothing,
      syncEmailAccount |-> Writes({"emailAccounts"}),
      getEmailMessages |-> Reads({"emailMessages"}),
      getEmailMessage |-> Reads({"emailMessages"}),
      markEmailAsSpam |-> Writes({"emailMessages"}) ]

\* shared/api/dashboard.ts
DashboardApi ==
    [ getCustomerDashboard |-> Reads({"figures"}) ]

\* admin/services/activityService.ts
ActivityService ==
    [ getActivityLogs |-> Reads({"audit"}),
      getActivityStats |-> Reads({"audit"}),
      getUserLoginHistory |-> Reads({"audit"}),
      getSecurityActivity |-> Reads({"audit"}) ]

\* admin/services/auditService.ts
AuditService ==
    [ getAuditLogs |-> Reads({"audit"}),
      getUserAuditLogs |-> Reads({"audit"}),
      getMyAuditLogs |-> Reads({"audit"}) ]

\* admin/services/maintenanceService.ts
MaintenanceService ==
    [ getMaintenanceStats |-> Reads({"backups", "cacheEntries"}),
      getBackupHistory |-> Reads({"backups"}),
      createBackup |-> Writes({"backups"}),
      restoreBackup |-> Writes({"backups"}),
      downloadBackup |-> Reads({"backups"}),
      deleteBackup |-> Writes({"backups"}),
      getCacheStats |-> Reads({"cacheEntries"}),
      clearAllCache |-> Writes({"cacheEntries"}),
      clearCacheByPattern |-> Writes({"cacheEntries"}),
      warmCache |-> Writes({"cacheEntries"}) ]

MaintenanceServiceData ==
    [ getCleanupStats |-> Reads({"oldData"}),
      previewCleanup |-> Nothing,
      runCleanup |-> Writes({"oldData"}),
      getMigrations |-> Reads({"migrations"}),
      getCurrentMigration |-> Reads({"migrations"}),
      upgradeMigrations |-> Writes({"migrations"}),
      downgradeMigrations |-> Writes({"migrations"}) ]

\* admin/services/reportService.ts
AdminReportService ==
    [ getSystemReport |-> Reads({"figures"}),
      getUserReport |-> Reads({"figures"}),
      getActivityReport |-> Reads({"figures"}),
      getSecurityReport |-> Reads({"figures"}),
      getPerformanceReport |-> Reads({"figures"}),
      exportReport |-> Nothing \o Reads({"figures"}) ]

\* admin/services/roleService.ts
RoleService ==
    [ getRoles |-> Reads({"roles"}),
      getRole |-> Reads({"roles"}),
      createRole |-> Writes({"roles"}),
      updateRole |-> Writes({"roles"}),
      deleteRole |-> Writes({"roles"}),
      getRolePermissions |-> Reads({"roles"}),
      updateRolePermissions |-> Writes({"roles"}) ]

\* admin/services/settingsService.ts
AdminSettingsServiceByKey ==
    [ testEmailConfig |-> Nothing,
      testStorageConfig |-> Nothing,
      getSettingsByCategory |-> Reads({"settings"}),
      getSetting |-> Reads({"settings"}),
      updateSetting |-> Writes({"settings"}),
      resetSetting |-> Writes({"settings"}) ]

\* admin/services/supportService.ts
SupportService ==
    [ getSupportStats |-> Reads({"tickets"}),
      getSupportGroups |-> Reads({"supportGroups"}),
      getSupportGroup |-> Reads({"supportGroups"}),
      createSupportGroup |-> Writes({"supportGroups"}),
      updateSupportGroup |-> Writes({"supportGroups"}),
      deleteSupportGroup |-> Writes({"supportGroups"}),
      addGroupMember |-> Writes({"supportGroups"}),
      removeGroupMember |-> Writes({"supportGroups"}) ]

SupportServiceCategories ==
    [ getTicketCategories |-> Reads({"ticketCategories"}),
      getTicketCategory |-> Reads({"ticketCategories"}),
      createTicketCategory |-> Writes({"ticketCategories"}),
      updateTicketCategory |-> Writes({"ticketCategories"}),
      deleteTicketCategory |-> Writes({"ticketCategories"}) ]

SupportServiceAutomation ==
    [ getAutomationRules |-> Reads({"automationRules"}),
      getAutomationRule |-> Reads({"automationRules"}),
      createAutomationRule |-> Writes({"automationRules"}),
      updateAutomationRule |-> Writes({"automationRules"}),
      deleteAutomationRule |-> Writes({"automationRules"}),
      toggleAutomationRule |-> Writes({"automationRules"}) ]

\* admin/services/systemService.ts
SystemService ==
    [ getSystemOverview |-> Reads({"health"}),
      getSystemHealth |-> Reads({"health"}),
      getSystemStats |-> Reads({"health"}),
      getDetailedHealth |-> Reads({"health"}),
      getRecentActivity |-> Reads({"audit"}),
      getUsersByRole |-> Reads({"users"}) ]

SystemServiceAlerts ==
    [ getPerformanceMetrics |-> Reads({"health"}),
      getAlerts |-> Reads({"alerts"}),
      resolveAlert |-> Writes({"alerts"}),
      acknowledgeAlert |-> Writes({"alerts"}),
      getSystemLogs |-> Reads({"audit"}) ]

\* admin/services/userService.ts
UserService ==
    [ getUsers |-> Reads({"users"}),
      getUser |-> Reads({"users"}),
      createUser |-> Writes({"users"}),
      updateUser |-> Writes({"users"}),
      deleteUser |-> Writes({"users"}),
      activateUser |-> Writes({"users"}),
      deactivateUser |-> Writes({"users"}) ]

UserServiceAccess ==
    [ assignRoles |-> Writes({"users"}),
      forcePasswordReset |-> Writes({"users"}),
      unlockAccount |-> Writes({"users"}),
      getUserSessions |-> Reads({"sessions"}),
      revokeSession |-> Writes({"sessions"}),
      revokeAllSessions |-> Writes({"sessions"}),
      getUserActivity |-> Reads({"audit"}),
      getUserStats |-> Reads({"audit"}) ]

\* auth/services/authService.ts
AuthService ==
    [ login |-> AuthApi.login,
      register |-> AuthApi.register,
      logout |-> Nothing,
      refreshToken |-> AuthApi.refreshToken,
      getCurrentUser |-> Nothing,
      completeLogin2FA |-> AuthApi.completeLogin2FA,
      enable2FA |-> AuthApi.enable2FA,
      verify2FA |-> AuthApi.verify2FA,
      disable2FA |-> AuthApi.disable2FA,
      setupRequired2FA |-> AuthApiTwoFactor.setupRequired2FA,
      verifySetupRequired2FA |-> AuthApiTwoFactor.verifySetupRequired2FA,
      check2FARequirement |-> AuthApiTwoFactor.check2FARequirement ]

AuthServiceAccount ==
    [ requestPasswordReset |-> AuthApiTwoFactor.requestPasswordReset,
      confirmPasswordReset |-> AuthApiTwoFactor.confirmPasswordReset,
      getSessions |-> AuthApiAccount.getSessions,
      deleteSession |-> AuthApiAccount.deleteSession,
      getSecurityActivity |-> AuthApiAccount.getSecurityActivity,
      getLoginHistory |-> AuthApiAccount.getLoginHistory,
      updateProfile |-> AuthApiAccount.updateProfile,
      changePassword |-> AuthApiAccount.changePassword ]

\* customers/services/customerService.ts
CustomerService ==
    [ getAll |-> CustomersApi.getCustomers,
      getById |-> CustomersApi.getCustomer,
      getMyCustomer |-> CustomersApi.getMyCustomer,
      create |-> CustomersApi.createCustomer,
      update |-> CustomersApi.updateCustomer ]

CustomerServiceLifecycle ==
    [ delete |-> CustomersApi.deleteCustomer,
      activate |-> CustomersApi.activateCustomer,
      suspend |-> CustomersApi.suspendCustomer,
      submitForApproval |-> CustomersApiApproval.submitForApproval,
      approve |-> CustomersApiApproval.approveCustomer,
      reject |-> CustomersApiApproval.rejectCustomer,
      getStatusHistory |-> CustomersApiApproval.getStatusHistory,
      getProfileCompleteness |-> CustomersApiApproval.getProfileCompleteness,
      getMissingFields |-> CustomersApiApproval.getMissingFields,
      getStatistics |-> CustomersApi.getStatistics ]

\* customers/services/kycService.ts
KycService ==
    [ getCustomerKYCStatus |-> CustomersApiKyc.getKYCStatus,
      getDocuments |-> CustomersApiKyc.getKYCDocuments,
      getDocument |-> CustomersApiKyc.getKYCDocument,
      uploadDocument |-> CustomersApiKyc.uploadKYCDocument,
      updateDocument |-> CustomersApiKyc.updateKYCDocument,
      deleteDocument |-> CustomersApiKyc.deleteKYCDocument,
      verifyDocument |-> CustomersApiKyc.verifyKYCDocument,
      downloadDocument |-> CustomersApiKyc.downloadKYCDocument,
      triggerDocumentDownload |-> CustomersApiKyc.downloadKYCDocument ]

\* dashboard/services/dashboardService.ts
DashboardService ==
    [ getCustomerDashboard |-> DashboardApi.getCustomerDashboard,
      getCorporateDashboard |-> Nothing ]

\* dns/services/dnsService.ts
DnsService ==
    [ getZones |-> Reads({"dnsZones"}),
      getZone |-> Reads({"dnsZones"}),
      createZone |-> Writes({"dnsZones"}),
      updateZone |-> Writes({"dnsZones"}),
      deleteZone |-> Writes({"dnsZones"}) ]

DnsServiceRecords ==
    [ getRecords |-> Reads({"dnsRecords"}),
      getRecord |-> Reads({"dnsRecords"}),
      createRecord |-> Writes({"dnsRecords"}),
      bulkCreateRecords |-> Writes({"dnsRecords"}),
      updateRecord |-> Writes({"dnsRecords"}),
      deleteRecord |-> Writes({"dnsRecords"}) ]

DnsServiceTemplates ==
    [ getTemplates |-> Reads({"dnsTemplates"}),
      applyTemplate |-> Writes({"dnsRecords"}),
      getZoneStatistics |-> Reads({"dnsZones", "dnsRecords"}) ]

DnsServiceAdmin ==
    [ getAllZones |-> Reads({"dnsZones"}),
      getZoneById |-> Reads({"dnsZones"}),
      createSystemZone |-> Writes({"dnsZones"}),
      activateZone |-> Writes({"dnsZones"}),
      suspendZone |-> Writes({"dnsZones"}),
      getCoreDNSStatus |-> Reads({"coredns"}),
      reloadCoreDNS |-> Writes({"coredns"}),
      regenerateCoreDNSConfig |-> Writes({"coredns"}),
      getSyncLogs |-> Reads({"syncLogs"}),
      getAdminTemplates |-> Reads({"dnsTemplates"}),
      createTemplate |-> Writes({"dnsTemplates"}),
      updateTemplate |-> Writes({"dnsTemplates"}),
      deleteTemplate |-> Writes({"dnsTemplates"}) ]

\* hosting/services/vpsService.ts
VpsService ==
    [ getPlans |-> Reads({"plans"}),
      getPlan |-> Reads({"plans"}),
      getAllPlans |-> Reads({"plans"}),
      getPlanAdmin |-> Reads({"plans"}),
      createPlan |-> Writes({"plans"}),
      updatePlan |-> Writes({"plans"}),
      deletePlan |-> Writes({"plans"}),
      activatePlan |-> Writes({"plans"}),
      deactivatePlan |-> Writes({"plans"}) ]

VpsServiceSubscriptions ==
    [ requestVPS |-> Writes({"subscriptions", "quotes", "timeline"}),
      getMySubscriptions |-> Reads({"subscriptions", "containers"}),
      getSubscription |-> Reads({"subscriptions", "containers", "timeline"}),
      getSubscriptionContainers |-> Reads({"containers"}),
      upgradeSubscription |-> Writes({"subscriptions", "timeline"}),
      cancelSubscription |-> Writes({"subscriptions", "timeline"}) ]

VpsServiceInstances ==
    [ startContainer |-> Writes({"containers", "timeline"}),
      stopContainer |-> Writes({"containers", "timeline"}),
      rebootContainer |-> Writes({"containers", "timeline"}),
      getContainerStats |-> Reads({"metrics"}),
      getContainerLogs |-> Reads({"metrics"}),
      execCommand |-> Nothing,
      getContainerCredentials |-> Reads({"access"}) ]

VpsServiceDocker ==
    [ installDocker |-> Writes({"containerFiles"}),
      runDockerCompose |-> Writes({"containerFiles"}),
      getTimeline |-> Reads({"timeline"}) ]

VpsServiceAdmin ==
    [ getPendingRequests |-> Reads({"subscriptions"}),
      approveRequest |-> Writes({"subscriptions", "containers", "timeline", "access"}),
      rejectRequest |-> Writes({"subscriptions", "timeline"}),
      getAllSubscriptions |-> Reads({"subscriptions", "containers"}),
      getSubscriptionAdmin |-> Reads({"subscriptions", "containers", "timeline"}) ]

VpsServiceProvisioning ==
    [ getSubscriptionStatsAdmin |-> Reads({"metrics"}),
      createSubscriptionAdmin |-> Writes({"subscriptions", "timeline"}),
      getSupportedDistrosAdmin |-> Reads({"distros"}),
      getImageDownloadStatusAdmin |-> Reads({"imageDownloads"}),
      suspendSubscription |-> Writes({"subscriptions", "containers", "timeline"}),
      reactivateSubscription |-> Writes({"subscriptions", "containers", "timeline"}),
      terminateSubscription |-> Writes({"subscriptions", "containers", "timeline"}) ]

VpsServiceImages ==
    [ getMonitoringOverview |-> Reads({"subscriptions", "metrics"}),
      getAlerts |-> Reads({"metrics"}),
      uploadCustomImage |-> Writes({"customImages"}),
      listCustomImages |-> Reads({"customImages"}),
      getCustomImage |-> Reads({"customImages"}),
      getImageBuildLogs |-> Reads({"buildLogs"}),
      rebuildCustomImage |-> Writes({"customImages"}),
      deleteCustomImage |-> Writes({"customImages"}),
      approveOrRejectImage |-> Writes({"customImages"}) ]

VpsServiceDomains ==
    [ getServiceDomainsBySubscription |-> Reads({"serviceDomains"}),
      createCustomDomain |-> Writes({"serviceDomains"}),
      updateServiceDomain |-> Writes({"serviceDomains"}),
      deleteServiceDomain |-> Writes({"serviceDomains"}),
      autoDetectServices |-> Writes({"serviceDomains"}),
      fixNginxConfiguration |-> Writes({"serviceDomains"}),
      updateUrlsInContainerConfigs |-> Writes({"containerFiles"}),
      getServiceDomainStatistics |-> Reads({"serviceDomains"}) ]

\* invoices/services/invoiceService.ts
InvoiceService ==
    [ getAll |-> InvoicesApi.getInvoices,
      getById |-> InvoicesApi.getInvoice,
      create |-> InvoicesApi.createInvoice,
      update |-> InvoicesApi.updateInvoice,
      delete |-> InvoicesApi.deleteInvoice,
      issue |-> InvoicesApi.issueInvoice \o InvoicesApi.getInvoice,
      send |-> InvoicesApi.sendInvoice \o InvoicesApi.getInvoice,
      recordPayment |-> InvoicesApi.recordPayment \o InvoicesApi.getInvoice,
      cancel |-> InvoicesApi.cancelInvoice \o InvoicesApi.getInvoice ]

InvoiceServiceReports ==
    [ convertFromQuote |-> InvoicesApi.convertFromQuote,
      getTimeline |-> InvoicesApi.getInvoiceTimeline,
      getStatistics |-> InvoicesApi.getInvoiceStatistics,
      downloadPDF |-> InvoicesApi.getInvoicePDF,
      triggerPDFDownload |-> InvoicesApi.getInvoicePDF,
      updateOverdue |-> InvoicesApi.updateOverdueInvoices ]

\* orders/services/orderService.ts
OrderService ==
    [ getAll |-> OrdersApi.getOrders,
      getById |-> OrdersApi.getOrder,
      create |-> OrdersApi.createOrder,
      update |-> OrdersApi.updateOrder,
      updateStatus |-> OrdersApi.updateOrderStatus,
      delete |-> OrdersApi.deleteOrder,
      getTimeline |-> OrdersApi.getOrderTimeline,
      getCustomerOrders |-> OrdersApi.getCustomerOrders ]

\* products/services/productService.ts
ProductService ==
    [ getAll |-> Reads({"products"}),
      getById |-> Reads({"products"}),
      getBySlug |-> Reads({"products"}),
      searchProducts |-> Reads({"products"}),
      getFeaturedProducts |-> Reads({"products"}),
      getProductStatistics |-> Reads({"products"}),
      create |-> Writes({"products"}),
      update |-> Writes({"products"}),
      delete |-> Writes({"products"}) ]

ProductServiceCategories ==
    [ getCategories |-> Reads({"productCategories"}),
      getCategory |-> Reads({"productCategories"}),
      getCategoryProducts |-> Reads({"products"}),
      createCategory |-> Writes({"productCategories"}),
      updateCategory |-> Writes({"productCategories"}),
      deleteCategory |-> Writes({"productCategories"}) ]

\* products/services/quoteService.ts
QuoteService ==
    [ createQuoteRequest |-> Writes({"quoteRequests"}),
      getQuoteRequests |-> Reads({"quotes"}),
      getQuoteRequest |-> Reads({"quoteRequests"}),
      updateQuoteRequest |-> Writes({"quoteRequests"}),
      deleteQuoteRequest |-> Writes({"quoteRequests"}),
      approveQuoteRequest |-> Writes({"quoteRequests"}),
      acceptQuoteRequest |-> Writes({"quoteRequests"}),
      rejectQuoteRequest |-> Writes({"quoteRequests"}) ]

QuoteServiceServices ==
    [ createServiceRequest |-> Writes({"serviceRequests"}),
      getServiceRequests |-> Reads({"serviceRequests"}),
      getServiceRequest |-> Reads({"serviceRequests"}),
      updateServiceRequest |-> Writes({"serviceRequests"}),
      deleteServiceRequest |-> Writes({"serviceRequests"}) ]

\* reports/services/reportService.ts
ReportService ==
    [ getAdminDashboard |-> Reads({"figures"}),
      getCorporateDashboard |-> Reads({"figures"}),
      getCustomerDashboard |-> Reads({"figures"}),
      getTicketsByStatus |-> Reads({"figures"}),
      getTicketsByPriority |-> Reads({"figures"}),
      getTicketsByCategory |-> Reads({"figures"}),
      getTicketsByAgent |-> Reads({"figures"}),
      getTicketsByTeam |-> Reads({"figures"}),
      getResponseTimeMetrics |-> Reads({"figures"}),
      getResolutionTimeMetrics |-> Reads({"figures"}) ]

ReportServiceCustomers ==
    [ getOpenVsClosedReport |-> Reads({"figures"}),
      getCustomersByStatus |-> Reads({"figures"}),
      getCustomersByType |-> Reads({"figures"}),
      getCustomerGrowth |-> Reads({"figures"}),
      getKYCStatusReport |-> Reads({"figures"}),
      getOrdersByStatus |-> Reads({"figures"}),
      getOrderValueMetrics |-> Reads({"figures"}) ]

ReportServiceOrders ==
    [ getMonthlyOrders |-> Reads({"figures"}),
      getProductPerformance |-> Reads({"figures"}),
      getOrdersByCustomer |-> Reads({"figures"}),
      exportReport |-> Nothing,
      downloadExport |-> Reads({"figures"}) ]

\* revenue/services/revenueService.ts
RevenueService ==
    [ getOverview |-> Reads({"figures"}),
      getTrends |-> Reads({"figures"}),
      getByCategory |-> Reads({"figures"}),
      getByCustomer |-> Reads({"figures"}),
      getReconciliation |-> Reads({"figures"}) ]

\* tickets/services/templateService.ts
TemplateService ==
    [ getTemplates |-> Reads({"ticketTemplates"}),
      getTemplate |-> Reads({"ticketTemplates"}),
      createTemplate |-> Writes({"ticketTemplates"}),
      updateTemplate |-> Writes({"ticketTemplates"}),
      deleteTemplate |-> Writes({"ticketTemplates"}),
      previewTemplate |-> Nothing,
      getAvailableVariables |-> Reads({"templateVariables"}),
      getPopularTemplates |-> Reads({"ticketTemplates"}),
      getTemplatesByCategory |-> Reads({"ticketTemplates"}),
      validateTemplate |-> Nothing ]

\* tickets/services/ticketService.ts
TicketService ==
    [ getAll |-> TicketsApi.getTickets,
      getById |-> TicketsApi.getTicket,
      create |-> TicketsApi.createTicket,
      update |-> TicketsApi.updateTicket ]

TicketServiceWork ==
    [ delete |-> TicketsApi.deleteTicket,
      assign |-> TicketsApi.assignTicket \o TicketsApi.getTicket,
      updateStatus |-> TicketsApi.updateStatus \o TicketsApi.getTicket,
      close |-> TicketsApi.closeTicket \o TicketsApi.getTicket,
      transfer |-> TicketsApi.transferTicket \o TicketsApi.getTicket ]

TicketServiceDetails ==
    [ getReplies |-> TicketsApiReplies.getReplies,
      createReply |-> TicketsApiReplies.createReply,
      updateReply |-> TicketsApiReplies.updateReply,
      deleteReply |-> TicketsApiReplies.deleteReply,
      getTags |-> TicketsApiTags.getTags,
      addTag |-> TicketsApiTags.addTicketTag,
      removeTag |-> TicketsApiTags.removeTicketTag,
      getWatchers |-> TicketsApiWatchers.getWatchers,
      addWatcher |-> TicketsApiWatchers.addWatcher,
      removeWatcher |-> TicketsApiWatchers.removeWatcher,
      getSLAMetrics |-> TicketsApiSla.getSLAMetrics,
      getActiveSLABreaches |-> TicketsApiSla.getActiveSLABreaches,
      getAttachments |-> TicketsApiSla.getAttachments,
      downloadAttachment |-> TicketsApiSla.downloadAttachment,
      getCategories |-> TicketsApiReplies.getCategories,
      bulkUpdateStatus |-> TicketsApi.updateStatus \o TicketsApi.getTicket ]

=============================================================================
